---- MODULE Spec2Model ----
(***************************************************************************)
(* A model of exceptionx 4.1.4 ("src/exceptionx/i exceptionx.py"):         *)
(*   - the on-demand exception type registry (__history__, __getattr__),   *)
(*   - the guarded-execution policies TryExcept / TryContext,              *)
(*   - the Retry loop (Retry.core / Retry.acore) with its clock, its       *)
(*     cancellation event and its progress diagnostics.                    *)
(* Strings that the code slices or searches are sequences of characters.   *)
(* Time is counted in ticks of 0.1 s (time.monotonic() readings).          *)
(***************************************************************************)
EXTENDS Integers, Sequences, FiniteSets, TLC

VARIABLES
    \* ---- registry ----
    threads,      \* the threads of the process that perform lookups
    history,      \* __history__: name -> kind object
    builtinsNs,   \* the builtins namespace: name -> kind object
    nextId,       \* identity of the next object type() allocates
    thr,          \* per thread: position in __getattr__, its locals
    held,         \* <<name, object>> pairs callers were handed
    warned,       \* names warnings.warn was called for
    lookups,      \* number of caller operations started so far
    writes,       \* what each mutation attempted on __history__ came to
    \* ---- policies ----
    policy,       \* the policy object (a TryExcept or Retry instance), or
                  \* the arguments of one TryContext(...)
    wrapped,      \* the units of work the policy object was applied to
    pc,           \* position of the running invocation
    cur,          \* the unit of work being invoked
    conv,         \* self.core as resolved by inner() for this invocation
    calls,        \* what each invocation of the unit of work did, in order
    count,        \* Retry.core: count
    before,       \* Retry.core: before
    start,        \* Retry.core: start
    end,          \* Retry.core: end
    sleepv,       \* Retry.core: sleep
    now,          \* time.monotonic(), in ticks
    eventSet,     \* event.is_set()
    outcome,      \* what the caller of the wrapped unit got
    log,          \* logger calls, callback calls and exit requests, in order
    others,       \* steps other tasks of the event loop have taken
    args,         \* the a, kw the wrapped unit was called with (TryExcept)
    cbargs,       \* the argument tuple of each ecallback call, in order
    tries,        \* the attempt number of each progress message, in order
    \* ---- construction ----
    given,        \* the arguments a policy constructor is called with
    built,        \* what the construction came to: a policy object or an
                  \* exception, and for TryContext how far its block got
    \* the duration codec
    codec,        \* a duration on its way through second2time and time2second
    \* ---- concurrent invocations of one wrapped function ----
    frames,       \* per invoking thread: position in Retry.core, calls made
    counters,     \* the attempt counters that exist, by the place they live
    \* ---- stacked policies ----
    stack         \* TryExcept applied on top of Retry: the two policy
                  \* objects, the unit of work and the running invocation

regvars == <<threads, history, builtinsNs, nextId, thr, held, warned, lookups,
             writes>>

polvars == <<policy, wrapped, pc, cur, conv, calls, count, before, start, end,
             sleepv, now, eventSet, outcome, log, others, args, cbargs,
             tries>>

ctorvars == <<given, built>>

codecvars == <<codec>>

concvars == <<frames, counters>>

stackvars == <<stack>>

vars == <<regvars, polvars, ctorvars, codecvars, concvars, stackvars>>

\* ------------------------------------------------------------------------
\* Bounds of the model
\* ------------------------------------------------------------------------
MaxLookups == 4
\* the largest attempt bound (count) a Retry policy is built with
MaxCount == 2
\* the most ticks one invocation of the unit of work takes
MaxWork == 1
\* the most steps other tasks take during one invocation
MaxOtherSteps == 1
\* invocations after which an unbounded loop is no longer followed
MaxCalls == MaxCount + 1
\* the largest number of seconds that is formatted: 1d1h1m1s
MaxSecond == 90061
\* the number of threads that invoke one wrapped function at a time
MaxInvokers == 3

\* ------------------------------------------------------------------------
\* Character strings
\* ------------------------------------------------------------------------
\* (mutation of Max: the second argument, whatever the first is)
MaxSecondOnly(a, b) == b
Max(a, b) == IF a >= b THEN a ELSE b
Min(a, b) == IF a <= b THEN a ELSE b

\* s[:n]
Head_(s, n) == SubSeq(s, 1, Min(n, Len(s)))
\* s[-n:]
Tail_(s, n) == SubSeq(s, Max(1, Len(s) - n + 1), Len(s))

\* `sub in s` for Python strings
Contains(sub, s) ==
    \E i \in 0 .. (Len(s) - Len(sub)) : SubSeq(s, i + 1, i + Len(sub)) = sub

UU == <<"_", "_">>
ErrorSuffix == <<"E", "r", "r", "o", "r">>

NameXError   == <<"X">> \o ErrorSuffix            \* "XError"
NameOdd      == <<"O", "d", "d">>                  \* "Odd": no "Error" suffix
NameValueErr == <<"V">> \o ErrorSuffix            \* stands for a built-in kind
NameMagic    == UU \o <<"c">> \o UU                \* "__c__"
NameUU       == UU                                 \* "__"
NameReadOnly  == <<"R", "O">> \o ErrorSuffix       \* "ReadOnlyError"
NameParameter == <<"P">> \o ErrorSuffix            \* "ParameterError"

Names == {NameXError, NameOdd, NameValueErr, NameMagic, NameUU}

\* The exception kinds the interpreter defines before the library is loaded.
StdKind(n) == [name |-> n, id |-> 0, base |-> "Exception"]
\* an object that is no exception kind at all
Foreign == [name |-> <<"i", "n", "t">>, id |-> 0, base |-> "object"]
StdBuiltins == [n \in {NameValueErr} |-> StdKind(n)]

\* ------------------------------------------------------------------------
\* __getattr__ (lines 134-156), one action per shared read or write
\* ------------------------------------------------------------------------
Idle == [pc |-> "idle", ename |-> <<>>, etype |-> StdKind(<<>>), op |-> "lookup"]

\* the mutators class __history__ overrides, lines 122-125
GuardedOps ==
    {"__setitem__", "__delitem__", "setdefault", "update", "pop", "popitem",
     "clear"}
\* mutators it inherits from dict as they are (lines 118-131 define no
\* others): the in-place union `__history__ |= other` and dict.__init__
OpenOps == {"__ior__", "__init__"}

\* the kind a rejected operation raises is fetched through __getattr__:
\* line 123 for a mutator, lines 176 and 198 for a constructor
RaisedName(op) == IF op = "construct" THEN NameParameter ELSE NameReadOnly

\* __getattr__ returns etype to its caller: a caller's lookup is handed the
\* object; line 123 / 176 instantiates it and raises the instance
Handed(t, etype) == held \cup {<<thr[t].ename, etype>>}
Attempted(t, etype) ==
    IF thr[t].op = "lookup" THEN writes
    ELSE writes \cup {[op |-> thr[t].op, raised |-> etype.name]}

\* line 135: ename in __history__
InHistory(ename) == ename \in DOMAIN history

\* line 138: ename[:2] == ename[-2:] == '__'
MagicEnds(ename) == Head_(ename, 2) = UU /\ Tail_(ename, 2) = UU

\* line 138: ename[2] and ename[-3] exist (otherwise IndexError)
MagicIndexable(ename) == Len(ename) >= 3

\* line 138: ... and ename[2] != '_' and ename[-3] != '_'
IsMagic(ename) ==
    MagicEnds(ename) /\ ename[3] # "_" /\ ename[Len(ename) - 2] # "_"

\* line 147: ename[-5:] != 'Error'
StrangeName(ename) == Tail_(ename, 5) # ErrorSuffix

\* a caller starts exceptionx.<ename>
GetAttrCall(t, ename) ==
    /\ thr[t].pc = "idle"
    /\ lookups < MaxLookups
    /\ lookups' = lookups + 1
    /\ thr' = [thr EXCEPT ![t] = [pc |-> "check", ename |-> ename,
                                  etype |-> StdKind(<<>>), op |-> "lookup"]]
    /\ UNCHANGED <<threads, history, builtinsNs, nextId, held, warned>>
    /\ UNCHANGED writes
    /\ UNCHANGED polvars
    /\ UNCHANGED ctorvars
    /\ UNCHANGED codecvars
    /\ UNCHANGED concvars
    /\ UNCHANGED stackvars

\* (mutation of GetAttrCheck: no memoisation, every request builds a type)
GetAttrCheckAlwaysCreate(t) ==
    /\ thr[t].pc = "check"
    /\ thr' = [thr EXCEPT ![t].pc =
                  IF InHistory(thr[t].ename) THEN "create" ELSE "magic"]
    /\ UNCHANGED <<threads, history, builtinsNs, nextId, held, warned, lookups>>
    /\ UNCHANGED writes
    /\ UNCHANGED polvars
    /\ UNCHANGED ctorvars
    /\ UNCHANGED codecvars
    /\ UNCHANGED concvars
    /\ UNCHANGED stackvars

\* lines 135-136: the membership test, and the read on a hit
GetAttrCheck(t) ==
    /\ thr[t].pc = "check"
    /\ thr' = [thr EXCEPT ![t].pc =
                  IF InHistory(thr[t].ename) THEN "fetch" ELSE "magic"]
    /\ UNCHANGED <<threads, history, builtinsNs, nextId, held, warned, lookups>>
    /\ UNCHANGED writes
    /\ UNCHANGED polvars
    /\ UNCHANGED ctorvars
    /\ UNCHANGED codecvars
    /\ UNCHANGED concvars
    /\ UNCHANGED stackvars

GetAttrFetch(t) ==
    /\ thr[t].pc = "fetch"
    /\ held' = Handed(t, history[thr[t].ename])
    /\ writes' = Attempted(t, history[thr[t].ename])
    /\ thr' = [thr EXCEPT ![t] = Idle]
    /\ UNCHANGED <<threads, history, builtinsNs, nextId, warned, lookups>>
    /\ UNCHANGED polvars
    /\ UNCHANGED ctorvars
    /\ UNCHANGED codecvars
    /\ UNCHANGED concvars
    /\ UNCHANGED stackvars

\* lines 138-141: magic names raise AttributeError ("__" raises IndexError)
GetAttrMagic(t) ==
    /\ thr[t].pc = "magic"
    /\ LET n == thr[t].ename IN
       thr' = [thr EXCEPT ![t] =
                  IF MagicEnds(n) /\ ~MagicIndexable(n) THEN Idle
                  ELSE IF IsMagic(n) THEN Idle
                  ELSE [@ EXCEPT !.pc = "builtin"]]
    /\ UNCHANGED <<threads, history, builtinsNs, nextId, held, warned, lookups>>
    /\ UNCHANGED writes
    /\ UNCHANGED polvars
    /\ UNCHANGED ctorvars
    /\ UNCHANGED codecvars
    /\ UNCHANGED concvars
    /\ UNCHANGED stackvars

\* (mutation of GetAttrBuiltin: builtins is not consulted)
GetAttrBuiltinSkipped(t) ==
    /\ thr[t].pc = "builtin"
    /\ warned' = IF StrangeName(thr[t].ename) THEN warned \cup {thr[t].ename}
                 ELSE warned
    /\ thr' = [thr EXCEPT ![t].pc = "create"]
    /\ UNCHANGED <<threads, history, builtinsNs, nextId, held, lookups, writes>>
    /\ UNCHANGED polvars
    /\ UNCHANGED ctorvars
    /\ UNCHANGED codecvars
    /\ UNCHANGED concvars
    /\ UNCHANGED stackvars

\* lines 143-151: a kind of that name in builtins is returned as it is
GetAttrBuiltin(t) ==
    /\ thr[t].pc = "builtin"
    /\ LET n == thr[t].ename IN
       IF n \in DOMAIN builtinsNs
       THEN /\ held' = Handed(t, builtinsNs[n])
            /\ writes' = Attempted(t, builtinsNs[n])
            /\ thr' = [thr EXCEPT ![t] = Idle]
            /\ UNCHANGED warned
       ELSE /\ warned' = IF StrangeName(n) THEN warned \cup {n} ELSE warned
            /\ thr' = [thr EXCEPT ![t].pc = "create"]
            /\ UNCHANGED <<held, writes>>
    /\ UNCHANGED <<threads, history, builtinsNs, nextId, lookups>>
    /\ UNCHANGED polvars
    /\ UNCHANGED ctorvars
    /\ UNCHANGED codecvars
    /\ UNCHANGED concvars
    /\ UNCHANGED stackvars

\* line 153: type(ename, (Error,), {}); Error.__init_subclass__ (lines 51-53)
\* publishes the new class in builtins
GetAttrCreate(t) ==
    /\ thr[t].pc = "create"
    /\ LET n == thr[t].ename
           new == [name |-> n, id |-> nextId, base |-> "Error"]
       IN /\ nextId' = nextId + 1
          /\ builtinsNs' = [m \in DOMAIN builtinsNs \cup {n} |->
                               IF m = n THEN new ELSE builtinsNs[m]]
          /\ thr' = [thr EXCEPT ![t].pc = "store", ![t].etype = new]
    /\ UNCHANGED <<threads, history, held, warned, lookups>>
    /\ UNCHANGED writes
    /\ UNCHANGED polvars
    /\ UNCHANGED ctorvars
    /\ UNCHANGED codecvars
    /\ UNCHANGED concvars
    /\ UNCHANGED stackvars

\* lines 154-156: dict.__setitem__(__history__, ename, etype); return etype
GetAttrStore(t) ==
    /\ thr[t].pc = "store"
    /\ LET n == thr[t].ename IN
       /\ history' = [m \in DOMAIN history \cup {n} |->
                         IF m = n THEN thr[t].etype ELSE history[m]]
       /\ held' = Handed(t, thr[t].etype)
       /\ writes' = Attempted(t, thr[t].etype)
    /\ thr' = [thr EXCEPT ![t] = Idle]
    /\ UNCHANGED <<threads, builtinsNs, nextId, warned, lookups>>
    /\ UNCHANGED polvars
    /\ UNCHANGED ctorvars
    /\ UNCHANGED codecvars
    /\ UNCHANGED concvars
    /\ UNCHANGED stackvars

\* ------------------------------------------------------------------------
\* class __history__ (lines 118-131) and rejected constructions
\* ------------------------------------------------------------------------
\* lines 122-125: a caller calls one of the overridden mutators, whatever
\* the arguments; __getattr__('ReadOnlyError') runs before the raise
ViewWrite(t, op) ==
    /\ thr[t].pc = "idle"
    /\ lookups < MaxLookups
    /\ lookups' = lookups + 1
    /\ thr' = [thr EXCEPT ![t] = [pc |-> "check", ename |-> RaisedName(op),
                                  etype |-> StdKind(<<>>), op |-> op]]
    /\ UNCHANGED <<threads, history, builtinsNs, nextId, held, warned, writes>>
    /\ UNCHANGED polvars
    /\ UNCHANGED ctorvars
    /\ UNCHANGED codecvars
    /\ UNCHANGED concvars
    /\ UNCHANGED stackvars

\* a caller uses a mutator the class inherits from dict: the entry k -> v
\* is written and nothing is raised
ViewMutate(t, op, k, v) ==
    /\ thr[t].pc = "idle"
    /\ lookups < MaxLookups
    /\ lookups' = lookups + 1
    /\ history' = [m \in DOMAIN history \cup {k} |->
                      IF m = k THEN v ELSE history[m]]
    /\ writes' = writes \cup {[op |-> op, raised |-> <<>>]}
    /\ UNCHANGED <<threads, builtinsNs, nextId, thr, held, warned>>
    /\ UNCHANGED polvars
    /\ UNCHANGED ctorvars
    /\ UNCHANGED codecvars
    /\ UNCHANGED concvars
    /\ UNCHANGED stackvars

\* TryExcept.__new__ line 176 (and __init__ line 198, Retry.__init__ lines
\* 330-358): a constructor rejects its arguments;
\* __getattr__('ParameterError') runs before the raise
ConstructRejected(t) ==
    /\ thr[t].pc = "idle"
    /\ lookups < MaxLookups
    /\ lookups' = lookups + 1
    /\ thr' = [thr EXCEPT ![t] = [pc |-> "check",
                                  ename |-> RaisedName("construct"),
                                  etype |-> StdKind(<<>>), op |-> "construct"]]
    /\ UNCHANGED <<threads, history, builtinsNs, nextId, held, warned, writes>>
    /\ UNCHANGED polvars
    /\ UNCHANGED ctorvars
    /\ UNCHANGED codecvars
    /\ UNCHANGED concvars
    /\ UNCHANGED stackvars

\* ------------------------------------------------------------------------
\* Exceptions, kinds and the match rule
\* ------------------------------------------------------------------------
\* the classes an exception kind derives from, itself included
Ancestors(k) ==
    CASE k = "IndexError"  -> {"IndexError", "LookupError", "Exception", "BaseException"}
      [] k = "LookupError" -> {"LookupError", "Exception", "BaseException"}
      [] k = "ValueError"  -> {"ValueError", "Exception", "BaseException"}
      [] k = "TypeError"   -> {"TypeError", "Exception", "BaseException"}
      [] k = "Exception"   -> {"Exception", "BaseException"}
      [] k = "SystemExit"  -> {"SystemExit", "BaseException"}
      [] OTHER             -> {k, "BaseException"}

\* isinstance(e, etype) / `except etype`, etype one kind or a tuple of kinds
IsInstance(e, etype) == Ancestors(e.kind) \cap etype # {}

\* str(e) of an exception built with one string argument
Str(e) == e.msg

\* emsg = None: a value no string equals
NoMsg == <<"None">>

\* lines 382, 486 (and inline at 255, 259): emsg is None or emsg in str(e)
ContainEmsg(p, e) == p.emsg = NoMsg \/ Contains(p.emsg, Str(e))

\* (mutation of Handles: a bare except in place of `except Exception`)
HandlesAnyBase(p, e) ==
    IF IsInstance(e, p.etype)
    THEN ~(p.invert \/ ~ContainEmsg(p, e))
    ELSE p.invert /\ ContainEmsg(p, e)

\* (mutation of Handles: the substring filter is ignored)
HandlesIgnoringEmsg(p, e) ==
    IF IsInstance(e, p.etype) THEN ~p.invert
    ELSE IsInstance(e, {"Exception"}) /\ p.invert

\* TryExcept.core / acore, lines 254-261 and 267-274: the two except clauses.
\* TRUE: exception_handling runs; FALSE: the exception is raised again (or
\* was never caught: a kind outside Exception).
Handles(p, e) ==
    IF IsInstance(e, p.etype)
    THEN ~(p.invert \/ ~ContainEmsg(p, e))
    ELSE IF IsInstance(e, {"Exception"})
         THEN p.invert /\ ContainEmsg(p, e)
         ELSE FALSE

\* (mutation of Matches: the invert flag is ignored)
MatchesIgnoringInvert(p, e) ==
    IsInstance(e, {"Exception"}) /\ IsInstance(e, p.etype) /\ ContainEmsg(p, e)

\* (mutation of Matches: a bare except in place of `except Exception`)
MatchesAnyBase(p, e) ==
    IF IsInstance(e, p.etype)
    THEN ~(p.invert \/ ~ContainEmsg(p, e))
    ELSE p.invert /\ ContainEmsg(p, e)

\* (mutation of Matches: the kind filter is ignored)
MatchesAnyKind(p, e) ==
    IsInstance(e, {"Exception"}) /\ ~(p.invert \/ ~ContainEmsg(p, e))

\* Retry.core / acore lines 381-387 and 407-413, TryContext lines 485-491:
\* `except Exception`, then the isinstance test. TRUE: the exception counts
\* as a failed attempt (Retry) or is disposed (TryContext).
Matches(p, e) ==
    /\ IsInstance(e, {"Exception"})
    /\ IF IsInstance(e, p.etype)
       THEN ~(p.invert \/ ~ContainEmsg(p, e))
       ELSE p.invert /\ ContainEmsg(p, e)

\* ------------------------------------------------------------------------
\* Policy objects
\* ------------------------------------------------------------------------
\* count = 0 is stored as 'N' (line 338) and limit_time = 0 as float('inf')
\* (line 346); the model keeps the 0 and reads it through these two names
Unbounded == 0
Inf == 0

\* `.1` of line 430, in ticks of 0.1 s
QuietBelow == 1
\* `30` of line 431
ManyAttempts == 30

Filters == {{"ValueError"}, {"LookupError"}, {"ValueError", "LookupError"}}
Emsgs   == {NoMsg, <<"a">>}

\* TryExcept.__init__, lines 223-232 (raw, last_tb and the logger target only
\* shape the text of a message and are left out); core is the class's method
\* until __call__ rebinds it
TryExceptPolicies ==
    [cls : {"TryExcept"}, etype : Filters, emsg : Emsgs, invert : BOOLEAN,
     silent : BOOLEAN, ereturn : {"None", "fallback"},
     ecallback : {"none", "returns", "raises"}, eexit : BOOLEAN,
     core : {"core"}, sleep : {0}, count : {Unbounded}, limit_time : {Inf},
     event : {FALSE}]

\* Retry.__init__, lines 363-372: ereturn, ecallback and eexit keep the
\* defaults of TryExcept.__init__
RetryPolicies ==
    [cls : {"Retry"}, etype : Filters, emsg : Emsgs, invert : BOOLEAN,
     silent : BOOLEAN, ereturn : {"None"}, ecallback : {"none"},
     eexit : {FALSE}, core : {"core"},
     sleep : {0, 2},
     count : 0 .. MaxCount \cup {ManyAttempts},
     limit_time : {Inf, 2},
     event : BOOLEAN]

\* the arguments of TryContext(...), lines 470-481
TryContextPolicies ==
    [cls : {"TryContext"}, etype : Filters, emsg : Emsgs, invert : BOOLEAN,
     silent : BOOLEAN, ereturn : {"None"},
     ecallback : {"none", "returns", "raises"}, eexit : BOOLEAN,
     core : {"core"}, sleep : {0}, count : {Unbounded}, limit_time : {Inf},
     event : {FALSE}]

\* no policy object has been made
NoPolicy ==
    [cls |-> "none", etype |-> {}, emsg |-> NoMsg, invert |-> FALSE,
     silent |-> FALSE, ereturn |-> "None", ecallback |-> "none",
     eexit |-> FALSE, core |-> "core", sleep |-> 0, count |-> Unbounded,
     limit_time |-> Inf, event |-> FALSE]

\* the units of work: a plain function and a coroutine function
Units == {"f", "af"}
\* the positional and keyword arguments a wrapped unit is called with
NoArgs == [a |-> <<>>, kw |-> <<>>]
CallArgs == {[a |-> <<"x">>, kw |-> <<>>], [a |-> <<>>, kw |-> <<"y">>]}
\* asyncio.iscoroutinefunction(func), line 238
IsAsync(u) == u = "af"

\* what an invocation of the unit of work (or the guarded block) can raise
Raisable ==
    {[kind |-> "ValueError", msg |-> <<"a">>],
     [kind |-> "ValueError", msg |-> <<"b">>],
     [kind |-> "IndexError", msg |-> <<"b", "a">>],
     [kind |-> "SystemExit", msg |-> <<>>]}

\* the exception raised by the n-th invocation
Exc(b, n) == [kind |-> b.kind, msg |-> b.msg, id |-> n]
\* an exception made by the library or by the callback, not by the unit of work
LibExc(k) == [kind |-> k, msg |-> <<>>, id |-> 0]

NoOutcome == [type |-> "none"]
Returned(v) == [type |-> "return", value |-> v]
Raised(e) == [type |-> "raise", exc |-> e]
\* the caller was handed a coroutine object that nothing awaits
Coroutine == [type |-> "coroutine"]

\* the guarded block left normally, the exception swallowed (TryContext)
Swallowed == [type |-> "swallowed"]

\* ------------------------------------------------------------------------
\* TryExcept.__call__ (lines 234-249)
\* ------------------------------------------------------------------------
\* line 238: the convention the unit of work itself has
Detect(u) == IF IsAsync(u) THEN "acore" ELSE "core"

\* lines 235-242: self.core is rebound to self.acore for a coroutine function
\* and left as it is otherwise (the units here are not wrappers themselves,
\* so line 236 raises and the except branch runs)
CoreAfterWrap(p, u) == IF IsAsync(u) THEN "acore" ELSE p.core

Wrap(u) ==
    /\ pc = "idle"
    /\ policy.cls \in {"TryExcept", "Retry"}
    /\ u \notin wrapped
    /\ policy' = [policy EXCEPT !.core = CoreAfterWrap(policy, u)]
    /\ wrapped' = wrapped \cup {u}
    /\ UNCHANGED <<pc, cur, conv, calls, count, before, start, end, sleepv,
                   now, eventSet, outcome, log, others>>
    /\ UNCHANGED <<args, cbargs>>
    /\ UNCHANGED tries
    /\ UNCHANGED regvars
    /\ UNCHANGED ctorvars
    /\ UNCHANGED codecvars
    /\ UNCHANGED concvars
    /\ UNCHANGED stackvars

\* line 246, inner(): self.core is looked up when the wrapped unit is called.
\* A plain function run through acore hands its synchronous caller a
\* coroutine object; the function itself is not invoked.
\* Retry.core / acore lines 375-376: count = 0; before = time.monotonic()
\* TryExcept.core / acore are entered with the caller's a and kw (line 251 /
\* 264), which exception_handling is handed on; the Retry loop only passes
\* them to the unit of work
Invoke(u, ar) ==
    /\ pc = "idle"
    /\ u \in wrapped
    /\ cur' = u
    /\ conv' = policy.core
    /\ IF policy.core = "acore" /\ ~IsAsync(u)
       THEN /\ pc' = "done"
            /\ outcome' = Coroutine
            /\ UNCHANGED <<count, before, args>>
       ELSE IF policy.cls = "Retry"
       THEN /\ pc' = "top"
            /\ count' = 0
            /\ before' = now
            /\ UNCHANGED <<outcome, args>>
       ELSE /\ pc' = "call"
            /\ args' = ar
            /\ UNCHANGED <<count, before, outcome>>
    /\ UNCHANGED <<policy, wrapped, calls, start, end, sleepv, now, eventSet,
                   log, others, cbargs>>
    /\ UNCHANGED tries
    /\ UNCHANGED regvars
    /\ UNCHANGED ctorvars
    /\ UNCHANGED codecvars
    /\ UNCHANGED concvars
    /\ UNCHANGED stackvars

\* ------------------------------------------------------------------------
\* TryExcept.core / acore (lines 251-275), exception_handling (277-283)
\* ------------------------------------------------------------------------
\* (mutation of LogStep: the silent flag is read the wrong way round)
LogStepInverted(p) == IF p.silent THEN <<"log">> ELSE <<>>
\* lines 278-279 / 492-493: the logger is called unless silent
LogStep(p) == IF p.silent THEN <<>> ELSE <<"log">>
\* lines 280-281 / 494-495: the callback is called when one is configured
CallbackStep(p) == IF p.ecallback = "none" THEN <<>> ELSE <<"callback">>
\* lines 282-283 / 496-497: raise SystemExit(4)
ExitStep(p) == IF p.eexit THEN <<"exit">> ELSE <<>>

\* (mutation of HandlingCallbackArgs: the exception alone is handed over)
HandlingCallbackArgsExcOnly(e, func, ar) == <<e>>
\* line 281: self.ecallback(e, func, *a, **kw)
HandlingCallbackArgs(e, func, ar) == <<e, func, ar.a, ar.kw>>
\* line 495: ecallback(e)
ContextCallbackArgs(e) == <<e>>
\* the callback calls one disposition makes, each with its argument tuple
CallbackCalls(p, tuple) == IF p.ecallback = "none" THEN <<>> ELSE <<tuple>>

\* (mutation of DispositionLog: the exit is requested first)
DispositionLogExitFirst(p) == ExitStep(p) \o LogStep(p) \o CallbackStep(p)

\* exception_handling: log, then callback, then exit; a callback that raises
\* ends it there
DispositionLog(p) ==
    IF p.ecallback = "raises" THEN LogStep(p) \o CallbackStep(p)
    ELSE LogStep(p) \o CallbackStep(p) \o ExitStep(p)

\* (mutation of DispositionOutcome: an exception of the callback is caught)
DispositionOutcomeCatching(p, normal) ==
    IF p.eexit THEN Raised(LibExc("SystemExit")) ELSE normal

\* what the caller gets from a handled exception; `normal` is what a
\* completed disposition yields (the fallback value, line 262 / 275)
DispositionOutcome(p, normal) ==
    IF p.ecallback = "raises" THEN Raised(LibExc("CallbackError"))
    ELSE IF p.eexit THEN Raised(LibExc("SystemExit"))
    ELSE normal

\* line 253 / 266: the unit of work returns
TryExceptReturns(v) ==
    /\ pc = "call"
    /\ policy.cls = "TryExcept"
    /\ calls' = Append(calls, [type |-> "return", value |-> v])
    /\ outcome' = Returned(v)
    /\ pc' = "done"
    /\ UNCHANGED <<policy, wrapped, cur, conv, count, before, start, end,
                   sleepv, now, eventSet, log, others>>
    /\ UNCHANGED <<args, cbargs>>
    /\ UNCHANGED tries
    /\ UNCHANGED regvars
    /\ UNCHANGED ctorvars
    /\ UNCHANGED codecvars
    /\ UNCHANGED concvars
    /\ UNCHANGED stackvars

\* lines 254-262 / 267-275: the unit of work raises
TryExceptRaises(b) ==
    /\ pc = "call"
    /\ policy.cls = "TryExcept"
    /\ LET e == Exc(b, Len(calls) + 1) IN
       /\ calls' = Append(calls, [type |-> "raise", exc |-> e])
       /\ IF Handles(policy, e)
          THEN /\ log' = log \o DispositionLog(policy)
               /\ cbargs' = cbargs \o
                      CallbackCalls(policy, HandlingCallbackArgs(e, cur, args))
               /\ outcome' = DispositionOutcome(policy, Returned(policy.ereturn))
          ELSE /\ outcome' = Raised(e)
               /\ UNCHANGED <<log, cbargs>>
    /\ pc' = "done"
    /\ UNCHANGED <<policy, wrapped, cur, conv, count, before, start, end,
                   sleepv, now, eventSet, others, args>>
    /\ UNCHANGED tries
    /\ UNCHANGED regvars
    /\ UNCHANGED ctorvars
    /\ UNCHANGED codecvars
    /\ UNCHANGED concvars
    /\ UNCHANGED stackvars

\* ------------------------------------------------------------------------
\* TryContext (lines 469-497)
\* ------------------------------------------------------------------------
\* line 484: the block completes
ContextCompletes ==
    /\ pc = "idle"
    /\ policy.cls = "TryContext"
    /\ calls' = Append(calls, [type |-> "return", value |-> "None"])
    /\ outcome' = Returned("None")
    /\ pc' = "done"
    /\ UNCHANGED <<policy, wrapped, cur, conv, count, before, start, end,
                   sleepv, now, eventSet, log, others>>
    /\ UNCHANGED <<args, cbargs>>
    /\ UNCHANGED tries
    /\ UNCHANGED regvars
    /\ UNCHANGED ctorvars
    /\ UNCHANGED codecvars
    /\ UNCHANGED concvars
    /\ UNCHANGED stackvars

\* lines 485-497: an exception escapes the block
ContextRaises(b) ==
    /\ pc = "idle"
    /\ policy.cls = "TryContext"
    /\ LET e == Exc(b, Len(calls) + 1) IN
       /\ calls' = Append(calls, [type |-> "raise", exc |-> e])
       /\ IF Matches(policy, e)
          THEN /\ log' = log \o DispositionLog(policy)
               /\ cbargs' = cbargs \o
                      CallbackCalls(policy, ContextCallbackArgs(e))
               /\ outcome' = DispositionOutcome(policy, Swallowed)
          ELSE /\ outcome' = Raised(e)
               /\ UNCHANGED <<log, cbargs>>
    /\ pc' = "done"
    /\ UNCHANGED <<policy, wrapped, cur, conv, count, before, start, end,
                   sleepv, now, eventSet, others, args>>
    /\ UNCHANGED tries
    /\ UNCHANGED regvars
    /\ UNCHANGED ctorvars
    /\ UNCHANGED codecvars
    /\ UNCHANGED concvars
    /\ UNCHANGED stackvars

\* ------------------------------------------------------------------------
\* Retry.core / acore (lines 374-424), output_einfo (426-452)
\* ------------------------------------------------------------------------

\* line 378 / 404: start = time.monotonic()
LoopTop ==
    /\ pc = "top"
    /\ Len(calls) < MaxCalls
    /\ start' = now
    /\ pc' = "call"
    /\ UNCHANGED <<policy, wrapped, cur, conv, calls, count, before, end,
                   sleepv, now, eventSet, outcome, log, others>>
    /\ UNCHANGED <<args, cbargs>>
    /\ UNCHANGED tries
    /\ UNCHANGED regvars
    /\ UNCHANGED ctorvars
    /\ UNCHANGED codecvars
    /\ UNCHANGED concvars
    /\ UNCHANGED stackvars

\* the clock advances while the unit of work runs
WorkTick ==
    /\ pc = "call"
    /\ policy.cls = "Retry"
    /\ now - start < MaxWork
    /\ now' = now + 1
    /\ UNCHANGED <<policy, wrapped, pc, cur, conv, calls, count, before, start,
                   end, sleepv, eventSet, outcome, log, others>>
    /\ UNCHANGED <<args, cbargs>>
    /\ UNCHANGED tries
    /\ UNCHANGED regvars
    /\ UNCHANGED ctorvars
    /\ UNCHANGED codecvars
    /\ UNCHANGED concvars
    /\ UNCHANGED stackvars

\* line 380 / 406: the unit of work returns
RetryReturns(v) ==
    /\ pc = "call"
    /\ policy.cls = "Retry"
    /\ calls' = Append(calls, [type |-> "return", value |-> v])
    /\ outcome' = Returned(v)
    /\ pc' = "done"
    /\ UNCHANGED <<policy, wrapped, cur, conv, count, before, start, end,
                   sleepv, now, eventSet, log, others>>
    /\ UNCHANGED <<args, cbargs>>
    /\ UNCHANGED tries
    /\ UNCHANGED regvars
    /\ UNCHANGED ctorvars
    /\ UNCHANGED codecvars
    /\ UNCHANGED concvars
    /\ UNCHANGED stackvars

\* lines 381-388 / 407-414: the unit of work raises; a match is counted
RetryRaises(b) ==
    /\ pc = "call"
    /\ policy.cls = "Retry"
    /\ LET e == Exc(b, Len(calls) + 1) IN
       /\ calls' = Append(calls, [type |-> "raise", exc |-> e])
       /\ IF Matches(policy, e)
          THEN /\ count' = count + 1
               /\ pc' = "einfo"
               /\ UNCHANGED outcome
          ELSE /\ outcome' = Raised(e)
               /\ pc' = "done"
               /\ UNCHANGED count
    /\ UNCHANGED <<policy, wrapped, cur, conv, before, start, end, sleepv,
                   now, eventSet, log, others>>
    /\ UNCHANGED <<args, cbargs>>
    /\ UNCHANGED tries
    /\ UNCHANGED regvars
    /\ UNCHANGED ctorvars
    /\ UNCHANGED codecvars
    /\ UNCHANGED concvars
    /\ UNCHANGED stackvars

\* the exception the last invocation raised
LastExc == calls[Len(calls)].exc

\* line 430: time.monotonic() - start + self.sleep < .1
Quick(p) == now - start + p.sleep < QuietBelow

\* line 431: self.count == 'N' or self.count >= 30
Many(p) == p.count = Unbounded \/ p.count >= ManyAttempts

\* line 433: self.event is None or not self.event.is_set()
NotCancelled(p) == ~p.event \/ ~eventSet

\* lines 429-435, evaluated left to right as Python does: `1 < count <
\* self.count` compares count with self.count only when 1 < count, and
\* comparing an int with 'N' raises TypeError
EinfoResult(p) ==
    IF p.silent THEN "quiet"
    ELSE IF ~Quick(p) THEN "logged"
    ELSE IF ~Many(p) THEN "logged"
    ELSE IF ~(1 < count) THEN "logged"
    ELSE IF p.count = Unbounded THEN "TypeError"
    ELSE IF ~(count < p.count) THEN "logged"
    ELSE IF NotCancelled(p) THEN "quiet"
    ELSE "logged"

\* line 389 / 415: self.output_einfo(...); an exception it raises leaves the
\* loop through the except block
OutputEinfo ==
    /\ pc = "einfo"
    /\ LET r == EinfoResult(policy) IN
       /\ log' = IF r = "logged" THEN Append(log, "progress") ELSE log
       \* line 437: the message starts with [try:{count}/{self.count}
       /\ tries' = IF r = "logged" THEN Append(tries, count) ELSE tries
       /\ IF r = "TypeError"
          THEN /\ outcome' = Raised(LibExc("TypeError"))
               /\ pc' = "done"
          ELSE /\ pc' = "measure"
               /\ UNCHANGED outcome
    /\ UNCHANGED <<policy, wrapped, cur, conv, calls, count, before, start,
                   end, sleepv, now, eventSet, others>>
    /\ UNCHANGED <<args, cbargs>>
    /\ UNCHANGED regvars
    /\ UNCHANGED ctorvars
    /\ UNCHANGED codecvars
    /\ UNCHANGED concvars
    /\ UNCHANGED stackvars

\* lines 390-391 / 416-417: end = time.monotonic();
\* sleep = max(.0, self.sleep - (end - start))
Measure ==
    /\ pc = "measure"
    /\ end' = now
    /\ sleepv' = Max(0, policy.sleep - (now - start))
    /\ pc' = "check"
    /\ UNCHANGED <<policy, wrapped, cur, conv, calls, count, before, start,
                   now, eventSet, outcome, log, others>>
    /\ UNCHANGED <<args, cbargs>>
    /\ UNCHANGED tries
    /\ UNCHANGED regvars
    /\ UNCHANGED ctorvars
    /\ UNCHANGED codecvars
    /\ UNCHANGED concvars
    /\ UNCHANGED stackvars

\* (mutation of CountReached: the attempt bound is never found reached)
CountNeverReached(p) == FALSE
\* line 393: count == self.count ('N' equals no int)
CountReached(p) == p.count # Unbounded /\ count = p.count

\* (mutation of BudgetReached: > in place of >=)
BudgetExceeded(p) == p.limit_time # Inf /\ end - before + sleepv > p.limit_time

\* line 394: end - before + sleep >= self.limit_time
BudgetReached(p) == p.limit_time # Inf /\ end - before + sleepv >= p.limit_time

\* line 395: self.event is not None and self.event.is_set()
Cancelled(p) == p.event /\ eventSet

\* (mutation of StopCondition: the attempt bound is tested one attempt late)
StopConditionLate(p) ==
    \/ (p.count # Unbounded /\ count > p.count)
    \/ BudgetReached(p)
    \/ Cancelled(p)

\* lines 392-396
StopCondition(p) == CountReached(p) \/ BudgetReached(p) \/ Cancelled(p)

\* lines 392-398 / 418-424: raise, or time.sleep(sleep)
StopCheck ==
    /\ pc = "check"
    /\ IF StopCondition(policy)
       THEN /\ outcome' = Raised(LastExc)
            /\ pc' = "done"
       ELSE /\ pc' = "sleep"
            /\ UNCHANGED outcome
    /\ UNCHANGED <<policy, wrapped, cur, conv, calls, count, before, start,
                   end, sleepv, now, eventSet, log, others>>
    /\ UNCHANGED <<args, cbargs>>
    /\ UNCHANGED tries
    /\ UNCHANGED regvars
    /\ UNCHANGED ctorvars
    /\ UNCHANGED codecvars
    /\ UNCHANGED concvars
    /\ UNCHANGED stackvars

\* the clock advances during time.sleep(sleep)
SleepTick ==
    /\ pc = "sleep"
    /\ now < end + sleepv
    /\ now' = now + 1
    /\ UNCHANGED <<policy, wrapped, pc, cur, conv, calls, count, before, start,
                   end, sleepv, eventSet, outcome, log, others>>
    /\ UNCHANGED <<args, cbargs>>
    /\ UNCHANGED tries
    /\ UNCHANGED regvars
    /\ UNCHANGED ctorvars
    /\ UNCHANGED codecvars
    /\ UNCHANGED concvars
    /\ UNCHANGED stackvars

\* time.sleep(sleep) returns: the loop goes round (line 377 / 403)
SleepReturns ==
    /\ pc = "sleep"
    /\ now >= end + sleepv
    /\ pc' = "top"
    /\ UNCHANGED <<policy, wrapped, cur, conv, calls, count, before, start,
                   end, sleepv, now, eventSet, outcome, log, others>>
    /\ UNCHANGED <<args, cbargs>>
    /\ UNCHANGED tries
    /\ UNCHANGED regvars
    /\ UNCHANGED ctorvars
    /\ UNCHANGED codecvars
    /\ UNCHANGED concvars
    /\ UNCHANGED stackvars

\* some thread calls event.set() while the invocation is running
SetEvent ==
    /\ policy.event
    /\ ~eventSet
    /\ pc \in {"top", "call", "einfo", "measure", "check", "sleep"}
    /\ eventSet' = TRUE
    /\ UNCHANGED <<policy, wrapped, pc, cur, conv, calls, count, before, start,
                   end, sleepv, now, outcome, log, others>>
    /\ UNCHANGED <<args, cbargs>>
    /\ UNCHANGED tries
    /\ UNCHANGED regvars
    /\ UNCHANGED ctorvars
    /\ UNCHANGED codecvars
    /\ UNCHANGED concvars
    /\ UNCHANGED stackvars

\* line 398 and line 424: both loops wait in time.sleep(), which keeps the
\* calling thread, and with it the event loop that runs acore
DelayKind(cv) == "blocking"

\* the event loop can run another task: the running coroutine is suspended
\* in an await (line 406, or a cooperative delay)
LoopFree ==
    /\ conv = "acore"
    /\ \/ pc = "call"
       \/ pc = "sleep" /\ DelayKind(conv) = "cooperative"

\* another task of the same event loop takes a step
OtherTaskStep ==
    /\ LoopFree
    /\ others < MaxOtherSteps
    /\ others' = others + 1
    /\ UNCHANGED <<policy, wrapped, pc, cur, conv, calls, count, before, start,
                   end, sleepv, now, eventSet, outcome, log>>
    /\ UNCHANGED <<args, cbargs>>
    /\ UNCHANGED tries
    /\ UNCHANGED regvars
    /\ UNCHANGED ctorvars
    /\ UNCHANGED codecvars
    /\ UNCHANGED concvars
    /\ UNCHANGED stackvars

\* ------------------------------------------------------------------------
\* Retry.core invoked by several threads at a time (lines 374-398)
\* ------------------------------------------------------------------------
\* (mutation of CounterOf: one counter, kept on the policy object)
CounterOnPolicy(t) == 0
\* line 375: count is a local of core, one per invocation
CounterOf(t) == t

\* inner(), line 246, and line 375: thread t calls the wrapped function
ConcInvoke(t) ==
    /\ frames[t].pc = "idle"
    /\ frames' = [frames EXCEPT ![t].pc = "call"]
    /\ counters' = [k \in DOMAIN counters \cup {CounterOf(t)} |->
                        IF k = CounterOf(t) THEN 0 ELSE counters[k]]
    /\ UNCHANGED <<regvars, polvars, ctorvars, codecvars>>
    /\ UNCHANGED stackvars

\* lines 379-388: the unit of work raises an exception that matches
ConcRaises(t) ==
    /\ frames[t].pc = "call"
    /\ frames[t].attempts < MaxCalls
    /\ frames' = [frames EXCEPT ![t].pc = "check",
                                ![t].attempts = frames[t].attempts + 1]
    /\ counters' = [counters EXCEPT ![CounterOf(t)] = counters[CounterOf(t)] + 1]
    /\ UNCHANGED <<regvars, polvars, ctorvars, codecvars>>
    /\ UNCHANGED stackvars

\* lines 392-398: count == self.count ends the invocation
ConcCheck(t) ==
    /\ frames[t].pc = "check"
    /\ frames' = [frames EXCEPT ![t].pc =
                      IF counters[CounterOf(t)] = policy.count
                      THEN "done" ELSE "call"]
    /\ UNCHANGED counters
    /\ UNCHANGED <<regvars, polvars, ctorvars, codecvars>>
    /\ UNCHANGED stackvars

\* ------------------------------------------------------------------------
\* TryExcept applied on top of Retry (__init__.py lines 192-195)
\* ------------------------------------------------------------------------
NoStack ==
    [inner |-> NoPolicy, outer |-> NoPolicy, unit |-> "f", pc |-> "new",
     calls |-> <<>>, count |-> 0, log |-> <<>>, outcome |-> NoOutcome]

\* (mutation of CoreOverWrapper: the wrapper is a plain function, and
\* asyncio.iscoroutinefunction alone is asked)
CoreOverWrapperPlain(p, below) == p.core

\* lines 235-242, the else branch: func is the inner() of a policy below,
\* and self.core becomes acore when that policy's core is an acore
CoreOverWrapper(p, below) == IF below.core = "acore" THEN "acore" ELSE p.core

\* @Retry(...) is applied to the unit of work
StackWrapInner ==
    /\ stack.pc = "new"
    /\ stack' = [stack EXCEPT
                    !.inner.core = CoreAfterWrap(stack.inner, stack.unit),
                    !.pc = "inner"]
    /\ UNCHANGED <<regvars, polvars, ctorvars, codecvars, concvars>>

\* @TryExcept(...) is applied to what Retry.__call__ returned
StackWrapOuter ==
    /\ stack.pc = "inner"
    /\ stack' = [stack EXCEPT
                    !.outer.core = CoreOverWrapper(stack.outer, stack.inner),
                    !.pc = "outer"]
    /\ UNCHANGED <<regvars, polvars, ctorvars, codecvars, concvars>>

\* the outer inner() is called (and awaited, when it returns a coroutine):
\* TryExcept.core calls the wrapper of Retry (line 253), whose acore hands
\* a synchronous caller a coroutine object; otherwise the Retry loop starts
\* (lines 375-376)
StackInvoke ==
    /\ stack.pc = "outer"
    /\ stack' = IF stack.outer.core = "core" /\ stack.inner.core = "acore"
                 THEN [stack EXCEPT !.pc = "done", !.outcome = Coroutine]
                 ELSE [stack EXCEPT !.pc = "call", !.count = 0]
    /\ UNCHANGED <<regvars, polvars, ctorvars, codecvars, concvars>>

\* Retry.core line 380: the unit of work returns, and so does the outer
\* TryExcept.core (line 253)
StackReturns(v) ==
    /\ stack.pc = "call"
    /\ stack' = [stack EXCEPT
                    !.calls = Append(@, [type |-> "return", value |-> v]),
                    !.outcome = Returned(v), !.pc = "done"]
    /\ UNCHANGED <<regvars, polvars, ctorvars, codecvars, concvars>>

\* Retry.core lines 381-389: the unit of work raises; a match is counted
\* and, with a bound below 30, reported unless silent
StackRaises(b) ==
    /\ stack.pc = "call"
    /\ LET e == Exc(b, Len(stack.calls) + 1) IN
       stack' = IF Matches(stack.inner, e)
                THEN [stack EXCEPT
                        !.calls = Append(@, [type |-> "raise", exc |-> e]),
                        !.count = @ + 1,
                        !.log = IF stack.inner.silent THEN @
                                ELSE Append(@, "progress"),
                        !.pc = "check"]
                ELSE [stack EXCEPT
                        !.calls = Append(@, [type |-> "raise", exc |-> e]),
                        !.pc = "raised"]
    /\ UNCHANGED <<regvars, polvars, ctorvars, codecvars, concvars>>

\* Retry.core lines 392-398 with no time budget and no event
StackCheck ==
    /\ stack.pc = "check"
    /\ stack' = [stack EXCEPT !.pc = IF stack.count = stack.inner.count
                                      THEN "raised" ELSE "call"]
    /\ UNCHANGED <<regvars, polvars, ctorvars, codecvars, concvars>>

\* the exception leaves the Retry loop (line 387 / 397) and arrives in the
\* outer TryExcept.core, lines 254-262
StackHandle ==
    /\ stack.pc = "raised"
    /\ LET e == stack.calls[Len(stack.calls)].exc IN
       stack' = IF Handles(stack.outer, e)
                THEN [stack EXCEPT
                        !.log = @ \o DispositionLog(stack.outer),
                        !.outcome = DispositionOutcome(
                                        stack.outer,
                                        Returned(stack.outer.ereturn)),
                        !.pc = "done"]
                ELSE [stack EXCEPT !.outcome = Raised(e), !.pc = "done"]
    /\ UNCHANGED <<regvars, polvars, ctorvars, codecvars, concvars>>

\* ------------------------------------------------------------------------
\* Python values handed to Retry(...)
\* ------------------------------------------------------------------------
\* A value is its type and its content: a number is the exact fraction
\* num / den (den = 0: float('inf') is 1/0, float('nan') is 0/0; the
\* rounding of binary floats is left out), a string is its characters.
PyVal(t, n, d, str) == [t |-> t, num |-> n, den |-> d, s |-> str]
PyNone == PyVal("None", 0, 1, <<>>)
PyInt(n) == PyVal("int", n, 1, <<>>)
PyFloat(n, d) == PyVal("float", n, d, <<>>)
PyBool(b) == PyVal("bool", IF b THEN 1 ELSE 0, 1, <<>>)
PyStr(str) == PyVal("str", 0, 1, str)
PyInf == PyFloat(1, 0)
PyNaN == PyFloat(0, 0)
\* a threading.Event, and an object of a type no parameter accepts
PyEvent == PyVal("Event", 0, 1, <<>>)
PyList == PyVal("list", 0, 1, <<>>)
\* an exception of kind k leaves the function
Raises(k) == PyVal("raise", 0, 1, <<k>>)

\* isinstance(x, (int, float)); bool is a subclass of int
IsNumber(x) == x.t \in {"int", "float", "bool"}
\* isinstance(x, int)
IsInt(x) == x.t \in {"int", "bool"}
IsNaN(x) == x.t = "float" /\ x.den = 0 /\ x.num = 0
\* x == 0, x >= 0, x > 0 for a number x
EqZero(x) == IsNumber(x) /\ x.den # 0 /\ x.num = 0
GeZero(x) == ~IsNaN(x) /\ x.num >= 0
GtZero(x) == ~IsNaN(x) /\ x.num > 0
\* float.is_integer()
IsInteger(x) == x.den # 0 /\ x.num % x.den = 0
\* int(x)
ToInt(x) == PyInt(x.num \div x.den)
\* lines 328-333 / 348-353: a whole float is stored as an int
Normalised(x) == IF x.t = "float" /\ IsInteger(x) THEN ToInt(x) ELSE x

\* ------------------------------------------------------------------------
\* time2second (lines 562-581)
\* ------------------------------------------------------------------------
Digits == {"0", "1", "2", "3", "4", "5", "6", "7", "8", "9"}
DigitVal(c) ==
    CASE c = "0" -> 0 [] c = "1" -> 1 [] c = "2" -> 2 [] c = "3" -> 3
      [] c = "4" -> 4 [] c = "5" -> 5 [] c = "6" -> 6 [] c = "7" -> 7
      [] c = "8" -> 8 [] c = "9" -> 9

\* int(s) for a string of decimal digits
RECURSIVE IntOf(_)
IntOf(str) ==
    IF str = <<>> THEN 0
    ELSE IntOf(SubSeq(str, 1, Len(str) - 1)) * 10 + DigitVal(str[Len(str)])

RECURSIVE Pow10(_)
Pow10(n) == IF n = 0 THEN 1 ELSE 10 * Pow10(n - 1)

\* line 568: unit_time.isdigit()
IsDigitStr(str) == str # <<>> /\ \A i \in 1 .. Len(str) : str[i] \in Digits

\* the length of the run of digits of str that starts at position i (\d+)
RECURSIVE DigitRun(_, _)
DigitRun(str, i) ==
    IF i <= Len(str) /\ str[i] \in Digits THEN 1 + DigitRun(str, i + 1) ELSE 0

\* lines 562-567: the seconds one unit letter stands for (re.I: either
\* case), in the order the pattern lists the groups; 0: no unit letter
UnitSeconds(c) ==
    CASE c \in {"d", "D"} -> 86400
      [] c \in {"h", "H"} -> 3600
      [] c \in {"m", "M"} -> 60
      [] c \in {"s", "S"} -> 1
      [] OTHER -> 0

\* a/b + c/d
FracAdd(x, y) == [num |-> x.num * y.den + y.num * x.den, den |-> x.den * y.den]
NoMatch == [num |-> 0, den |-> 0]

\* lines 562-567 and 576-579: the pattern matched against str from position
\* i on, the groups so far all being of units larger than `above` seconds;
\* the sum of the groups, or NoMatch when fullmatch fails. A group is
\* \d+(\.\d+)? and its unit letter, which the last group alone may omit.
RECURSIVE GroupsFrom(_, _, _)
GroupsFrom(str, i, above) ==
    IF i > Len(str) THEN [num |-> 0, den |-> 1]
    ELSE
    LET w  == DigitRun(str, i)
        f  == IF i + w <= Len(str) /\ str[i + w] = "."
              THEN DigitRun(str, i + w + 1) ELSE 0
        j  == IF f > 0 THEN i + w + 1 + f ELSE i + w
        u  == IF j <= Len(str) THEN UnitSeconds(str[j]) ELSE 1
        k  == IF j <= Len(str) THEN j + 1 ELSE j
        x  == [num |-> IntOf(SubSeq(str, i, i + w - 1) \o
                             SubSeq(str, i + w + 1, i + w + f)) * u,
               den |-> Pow10(f)]
        rest == GroupsFrom(str, k, u)
    IN IF w = 0 \/ u = 0 \/ u >= above \/ rest = NoMatch THEN NoMatch
       ELSE FracAdd(x, rest)

\* more seconds than any unit letter stands for
AnyUnit == 86400 + 1

time2second(str) ==
    IF IsDigitStr(str) THEN PyInt(IntOf(str))
    ELSE IF str = <<>> \/ GroupsFrom(str, 1, AnyUnit) = NoMatch
    THEN Raises("ValueError")
    ELSE LET r == GroupsFrom(str, 1, AnyUnit) IN
         IF r.num % r.den = 0 THEN PyInt(r.num \div r.den)
         ELSE PyFloat(r.num, r.den)

\* ------------------------------------------------------------------------
\* second2time (lines 584-601)
\* ------------------------------------------------------------------------
\* f'{v}' for an int v >= 0
RECURSIVE StrOf(_)
StrOf(v) ==
    LET chars == <<"0", "1", "2", "3", "4", "5", "6", "7", "8", "9">> IN
    IF v < 10 THEN <<chars[v + 1]>>
    ELSE StrOf(v \div 10) \o <<chars[(v % 10) + 1]>>

\* (mutation of Part: a whole unit is not carried, > in place of >=)
PartNoCarry(sec, s, u) ==
    IF sec > s THEN [r |-> StrOf(sec \div s) \o <<u>>, sec |-> sec % s]
    ELSE [r |-> <<>>, sec |-> sec]

\* lines 590-593, one round of the loop: what is appended to r, and the
\* seconds that are left
Part(sec, s, u) ==
    IF sec >= s THEN [r |-> StrOf(sec \div s) \o <<u>>, sec |-> sec % s]
    ELSE [r |-> <<>>, sec |-> sec]

\* second2time of an int >= 0: dec (line 586) is the int 0, so line 595
\* tests sec alone and the float branch of lines 597-598 is not taken
second2time(second) ==
    LET d == Part(second, 86400, "d")
        h == Part(d.sec, 3600, "h")
        m == Part(h.sec, 60, "m")
        r == d.r \o h.r \o m.r \o
             (IF m.sec # 0 THEN StrOf(m.sec) \o <<"s">> ELSE <<>>)
    IN IF r = <<>> THEN <<"0", "s">> ELSE r

\* a duration that is formatted and parsed back, or parsed and formatted
NoCodec ==
    [from |-> "none", stage |-> 0, text |-> <<>>, second |-> 0,
     again |-> PyNone]

\* strings that are parsed first
CodecTexts ==
    {<<"1", "h", "2", "m", "3", "s">>, <<"9", "0", "s">>, <<"4", "5">>,
     <<"1", "d">>, <<"6", "0", "m">>, <<"0", "s">>, <<"2", "4", "h", "1">>}

\* second2time(second) is called
Format ==
    /\ \/ codec.from = "second" /\ codec.stage = 0
       \/ codec.from = "text" /\ codec.stage = 1
    /\ codec' = IF codec.from = "second"
                 THEN [codec EXCEPT !.text = second2time(codec.second),
                                    !.stage = 1]
                 ELSE [codec EXCEPT !.again = PyStr(second2time(codec.second)),
                                    !.stage = 2]
    /\ UNCHANGED <<regvars, polvars, ctorvars>>
    /\ UNCHANGED concvars
    /\ UNCHANGED stackvars

\* time2second(text) is called
Parse ==
    /\ \/ codec.from = "second" /\ codec.stage = 1
       \/ codec.from = "text" /\ codec.stage = 0
    /\ codec' = IF codec.from = "second"
                 THEN [codec EXCEPT !.again = time2second(codec.text),
                                    !.stage = 2]
                 ELSE [codec EXCEPT !.second = time2second(codec.text).num,
                                    !.stage = 1]
    /\ UNCHANGED <<regvars, polvars, ctorvars>>
    /\ UNCHANGED concvars
    /\ UNCHANGED stackvars

\* ------------------------------------------------------------------------
\* Retry.__init__ (lines 296-372)
\* ------------------------------------------------------------------------
\* lines 323-333
InitSleep(sleep) ==
    IF sleep = PyNone THEN PyInt(0)
    ELSE IF sleep.t = "str" THEN time2second(sleep.s)
    ELSE IF ~(IsNumber(sleep) /\ GeZero(sleep)) THEN Raises("ParameterError")
    ELSE Normalised(sleep)

\* lines 335-341
InitCount(cnt) ==
    IF EqZero(cnt) THEN PyStr(<<"N">>)
    ELSE IF ~(IsInt(cnt) /\ GtZero(cnt)) THEN Raises("ParameterError")
    ELSE cnt

\* lines 343-353
InitLimitTime(limit_time) ==
    IF EqZero(limit_time) THEN PyInf
    ELSE IF limit_time.t = "str" THEN time2second(limit_time.s)
    ELSE IF ~(IsNumber(limit_time) /\ GtZero(limit_time))
    THEN Raises("ParameterError")
    ELSE Normalised(limit_time)

\* lines 355-359
InitEvent(event) ==
    IF ~(event = PyNone \/ event.t = "Event") THEN Raises("ParameterError")
    ELSE event

NotBuilt ==
    [type |-> "none", kind |-> "", when |-> "construct", sleep |-> PyNone,
     count |-> PyNone, limit_time |-> PyNone, event |-> PyNone]
Failed(x) == [NotBuilt EXCEPT !.type = "raise", !.kind = x.s[1]]

\* the statements of Retry.__init__ in their order: the first one that
\* raises ends the construction; lines 361-364 store the four values
RetryInit(g) ==
    LET sleep == InitSleep(g.sleep)
        cnt == InitCount(g.count)
        limit_time == InitLimitTime(g.limit_time)
        event == InitEvent(g.event)
    IN IF sleep.t = "raise" THEN Failed(sleep)
       ELSE IF cnt.t = "raise" THEN Failed(cnt)
       ELSE IF limit_time.t = "raise" THEN Failed(limit_time)
       ELSE IF event.t = "raise" THEN Failed(event)
       ELSE [type |-> "policy", kind |-> "", when |-> "construct",
             sleep |-> sleep, count |-> cnt, limit_time |-> limit_time,
             event |-> event]

\* an exception kind, a tuple (its members by name, "int" a member that is
\* no type), a logging.Logger
PyKind(k) == PyVal("kind", 0, 1, <<k>>)
PyTuple(members) == PyVal("tuple", 0, 1, members)
PyLogger == PyVal("Logger", 0, 1, <<>>)

\* TryExcept.__new__, lines 161-179 (Retry.__new__, line 291, calls it): a
\* subclass of Exception or a tuple of such; anything else that is not
\* callable is rejected
NewEtype(etype) ==
    IF etype.t = "kind" THEN etype
    ELSE IF etype.t = "tuple" /\ \A i \in 1 .. Len(etype.s) : etype.s[i] # "int"
    THEN etype
    ELSE Raises("ParameterError")

\* TryExcept.__init__, lines 197-201
InitEmsg(emsg) ==
    IF ~(emsg = PyNone \/ emsg.t = "str") THEN Raises("ParameterError")
    ELSE emsg

\* get_logger, lines 505-515
get_logger(logger) ==
    IF logger = PyNone THEN logger
    ELSE IF logger.t # "Logger" THEN Raises("ValueError")
    ELSE logger

\* TryExcept(...): __new__, then __init__ (etype, emsg, line 229 get_logger)
TryExceptInit(g) ==
    IF NewEtype(g.etype).t = "raise" THEN Failed(NewEtype(g.etype))
    ELSE IF InitEmsg(g.emsg).t = "raise" THEN Failed(InitEmsg(g.emsg))
    ELSE IF get_logger(g.logger).t = "raise" THEN Failed(get_logger(g.logger))
    ELSE [NotBuilt EXCEPT !.type = "policy"]

\* the whole of a construction. Retry(...): Retry.__new__, the four checks
\* of Retry.__init__, then TryExcept.__init__ (lines 366-370).
\* TryContext(...) is a generator function under @contextmanager (line 469):
\* the call runs none of its body
Constructed(g) ==
    IF g.cls = "TryContext" THEN [NotBuilt EXCEPT !.type = "policy"]
    ELSE IF g.cls = "TryExcept" THEN TryExceptInit(g)
    ELSE IF NewEtype(g.etype).t = "raise" THEN Failed(NewEtype(g.etype))
    ELSE IF RetryInit(g).type = "raise" THEN RetryInit(g)
    ELSE IF TryExceptInit(g).type = "raise" THEN TryExceptInit(g)
    ELSE RetryInit(g)

\* isinstance(e, etype) for an exception of kind k, as CPython evaluates it:
\* the members of a tuple in their order, up to the first that matches or
\* is no type
RECURSIVE PyIsInstance(_, _)
PyIsInstance(k, etype) ==
    IF etype.t = "kind"
    THEN IF etype.s[1] \in Ancestors(k) THEN "True" ELSE "False"
    ELSE IF etype.t # "tuple" THEN "TypeError"
    ELSE IF etype.s = <<>> THEN "False"
    ELSE IF Head(etype.s) = "int" THEN "TypeError"
    ELSE IF Head(etype.s) \in Ancestors(k) THEN "True"
    ELSE PyIsInstance(k, PyTuple(Tail(etype.s)))

\* duration strings a caller may write, well-formed and not
DurationStrings ==
    {<<>>, <<"0">>, <<"0", "0">>, <<"2">>, <<"0", "s">>, <<"2", "s">>,
     <<"2", "S">>, <<"1", "m">>, <<"1", "m", "3", "0">>, <<"1", "h", "2", "s">>,
     <<"1", "d">>, <<"0", ".", "0", "s">>, <<"1", ".", "5", "s">>,
     <<"0", ".", "2", "5">>, <<"1", ".", "5", "m">>, <<"-", "1", "s">>,
     <<"x">>, <<"s">>, <<"1", "s", "1", "m">>, <<"1", "m", "1", "m">>,
     <<"1", ".", "s">>, <<".", "5", "s">>, <<"0", "m", "0", "s">>}

\* numbers of either sign, zero, whole and fractional floats, inf and nan
Numbers ==
    {PyInt(-1), PyInt(0), PyInt(2), PyFloat(0, 1), PyFloat(-1, 2),
     PyFloat(1, 2), PyFloat(2, 1), PyBool(TRUE), PyBool(FALSE), PyInf, PyNaN}

\* Retry(sleep=..., count=..., limit_time=..., event=...) with every value
\* of the four, and each constructor with every etype, emsg and logger
Givens ==
    [cls : {"Retry"}, etype : {PyKind("ValueError")}, emsg : {PyNone},
     logger : {PyNone},
     sleep : Numbers \cup {PyNone, PyList} \cup {PyStr(d) : d \in DurationStrings},
     count : Numbers \cup {PyNone, PyStr(<<"2">>)},
     limit_time : Numbers \cup {PyNone, PyList}
                    \cup {PyStr(d) : d \in DurationStrings},
     event : {PyNone, PyEvent, PyList}]
    \cup
    [cls : {"TryExcept", "Retry", "TryContext"},
     etype : {PyKind("ValueError"), PyKind("LookupError"), PyInt(2), PyStr(<<"x">>),
              PyTuple(<<>>), PyTuple(<<"LookupError", "ValueError">>),
              PyTuple(<<"ValueError", "int">>), PyTuple(<<"LookupError", "int">>)},
     emsg : {PyNone, PyStr(<<"a">>), PyInt(2)},
     logger : {PyNone, PyLogger, PyList},
     sleep : {PyNone, PyStr(<<"x">>)},
     count : {PyInt(0)}, limit_time : {PyInt(0)}, event : {PyNone}]

NoGiven ==
    [cls |-> "Retry", etype |-> PyKind("Exception"), emsg |-> PyNone,
     logger |-> PyNone, sleep |-> PyNone, count |-> PyInt(0),
     limit_time |-> PyInt(0), event |-> PyNone]

\* TryExcept(...), Retry(...) or TryContext(...) is called
Construct ==
    /\ built = NotBuilt
    /\ built' = Constructed(given)
    /\ UNCHANGED given
    /\ UNCHANGED regvars
    /\ UNCHANGED polvars
    /\ UNCHANGED codecvars
    /\ UNCHANGED concvars
    /\ UNCHANGED stackvars

\* `with TryContext(...):` is entered: the generator runs up to its yield,
\* line 482 get_logger included
ContextEnter ==
    /\ given.cls = "TryContext"
    /\ built.type = "policy"
    /\ built' = IF get_logger(given.logger).t = "raise"
                THEN [Failed(get_logger(given.logger)) EXCEPT !.when = "enter"]
                ELSE [built EXCEPT !.type = "entered", !.when = "enter"]
    /\ UNCHANGED given
    /\ UNCHANGED regvars
    /\ UNCHANGED polvars
    /\ UNCHANGED codecvars
    /\ UNCHANGED concvars
    /\ UNCHANGED stackvars

\* lines 485-491: the block raises b; `emsg in str(e)` needs a str on its
\* left, isinstance a type or a tuple of types on its right
ContextMatch(b) ==
    /\ given.cls = "TryContext"
    /\ built.type = "entered"
    /\ built' =
          IF given.emsg # PyNone /\ given.emsg.t # "str"
          THEN [Failed(Raises("TypeError")) EXCEPT !.when = "match"]
          ELSE IF PyIsInstance(b.kind, given.etype) = "TypeError"
          THEN [Failed(Raises("TypeError")) EXCEPT !.when = "match"]
          ELSE [built EXCEPT !.type = "left", !.when = "match"]
    /\ UNCHANGED given
    /\ UNCHANGED regvars
    /\ UNCHANGED polvars
    /\ UNCHANGED codecvars
    /\ UNCHANGED concvars
    /\ UNCHANGED stackvars

\* ------------------------------------------------------------------------
\* Specifications
\* ------------------------------------------------------------------------
CtorInit(gs) ==
    /\ given \in gs
    /\ built = NotBuilt

CodecInit(cs) == codec \in cs

StackInit(ss) == stack \in ss

ConcInit(ts) ==
    /\ frames = [t \in ts |-> [pc |-> "idle", attempts |-> 0]]
    /\ counters = <<>>

PolInit(ps) ==
    /\ policy \in ps
    /\ wrapped = {}
    /\ pc = "idle"
    /\ cur = "f"
    /\ conv = "core"
    /\ calls = <<>>
    /\ count = 0
    /\ before = 0
    /\ start = 0
    /\ end = 0
    /\ sleepv = 0
    /\ now = 0
    /\ eventSet = FALSE
    /\ outcome = NoOutcome
    /\ log = <<>>
    /\ others = 0
    /\ args = NoArgs
    /\ cbargs = <<>>
    /\ tries = <<>>

RegInit(ths) ==
    /\ threads = ths
    /\ history = <<>>
    /\ builtinsNs = StdBuiltins
    /\ nextId = 1
    /\ thr = [t \in ths |-> Idle]
    /\ held = {}
    /\ warned = {}
    /\ lookups = 0
    /\ writes = {}

RegNext ==
    \/ \E t \in threads, ename \in Names : GetAttrCall(t, ename)
    \/ \E t \in threads : GetAttrCheck(t)
    \/ \E t \in threads : GetAttrFetch(t)
    \/ \E t \in threads : GetAttrMagic(t)
    \/ \E t \in threads : GetAttrBuiltin(t)
    \/ \E t \in threads : GetAttrCreate(t)
    \/ \E t \in threads : GetAttrStore(t)

\* one caller thread: any sequence of lookups
InitLookups == RegInit({1}) /\ PolInit({NoPolicy}) /\ CtorInit({NoGiven}) /\ CodecInit({NoCodec}) /\ ConcInit({}) /\ StackInit({NoStack})
SpecLookups == InitLookups /\ [][RegNext]_vars

\* what callers can do to the registry besides looking names up
ViewNext ==
    \/ \E t \in threads, op \in GuardedOps : ViewWrite(t, op)
    \/ \E t \in threads, op \in OpenOps, k \in {NameXError, NameValueErr} :
           ViewMutate(t, op, k, Foreign)
    \/ \E t \in threads : ConstructRejected(t)

\* one caller thread: lookups, mutations attempted on __history__ and
\* rejected constructions, in any order
SpecView == InitLookups /\ [][RegNext \/ ViewNext]_vars

\* two caller threads, interleaved at every shared read and write
InitRegistry == RegInit({1, 2}) /\ PolInit({NoPolicy}) /\ CtorInit({NoGiven}) /\ CodecInit({NoCodec}) /\ ConcInit({}) /\ StackInit({NoStack})
SpecRegistry == InitRegistry /\ [][RegNext]_vars

\* a policy object after construction; it is applied to units of work and
\* the wrapped units are invoked
Init ==
    /\ RegInit({})
    /\ PolInit(TryExceptPolicies \cup RetryPolicies \cup TryContextPolicies)
    /\ CtorInit({NoGiven}) /\ CodecInit({NoCodec}) /\ ConcInit({}) /\ StackInit({NoStack})

Next ==
    \/ \E u \in Units : Wrap(u)
    \/ \E u \in Units, ar \in CallArgs : Invoke(u, ar)
    \/ TryExceptReturns("result")
    \/ \E b \in Raisable : TryExceptRaises(b)
    \/ ContextCompletes
    \/ \E b \in Raisable : ContextRaises(b)
    \/ LoopTop
    \/ WorkTick
    \/ RetryReturns("result")
    \/ \E b \in Raisable : RetryRaises(b)
    \/ OutputEinfo
    \/ Measure
    \/ StopCheck
    \/ SleepTick
    \/ SleepReturns
    \/ SetEvent
    \/ OtherTaskStep

Spec == Init /\ [][Next]_vars

\* Retry(count=k), k >= 1, with every delay, time budget, event, silent and
\* invert; every call of the unit of work returns or raises, the clock
\* goes on and the thread is scheduled
InitBounded ==
    /\ RegInit({})
    /\ PolInit({p \in RetryPolicies :
                  /\ p.count \in 1 .. MaxCount
                  /\ p.etype = {"ValueError"} /\ p.emsg = NoMsg})
    /\ CtorInit({NoGiven}) /\ CodecInit({NoCodec}) /\ ConcInit({})
    /\ StackInit({NoStack})
RetryNext ==
    \/ \E u \in Units : Wrap(u)
    \/ \E u \in Units, ar \in CallArgs : Invoke(u, ar)
    \/ LoopTop
    \/ WorkTick
    \/ RetryReturns("result")
    \/ \E b \in Raisable : RetryRaises(b)
    \/ OutputEinfo
    \/ Measure
    \/ StopCheck
    \/ SleepTick
    \/ SleepReturns
    \/ SetEvent
    \/ OtherTaskStep
SpecBounded == InitBounded /\ [][RetryNext]_vars /\ WF_vars(RetryNext)

\* Retry(...) is called with arguments of every type and sign
InitConstruct ==
    RegInit({}) /\ PolInit({NoPolicy}) /\ CtorInit(Givens) /\ CodecInit({NoCodec}) /\ ConcInit({}) /\ StackInit({NoStack})
ConstructNext ==
    \/ Construct
    \/ ContextEnter
    \/ \E b \in {x \in Raisable : x.kind # "SystemExit"} : ContextMatch(b)
SpecConstruct == InitConstruct /\ [][ConstructNext]_vars

\* every whole number of seconds up to MaxSecond is formatted and parsed
\* back; the sample strings are parsed and formatted
InitCodec ==
    /\ RegInit({}) /\ PolInit({NoPolicy}) /\ CtorInit({NoGiven})
    /\ ConcInit({}) /\ StackInit({NoStack})
    /\ CodecInit({[NoCodec EXCEPT !.from = "second", !.second = n] :
                       n \in 0 .. MaxSecond}
                   \cup {[NoCodec EXCEPT !.from = "text", !.text = str] :
                           str \in CodecTexts})
CodecNext ==
    \/ Format
    \/ Parse
SpecCodec == InitCodec /\ [][CodecNext]_vars

\* Retry(count=k) with the defaults of everything else, applied to one
\* function that always fails and is called by MaxInvokers threads
InitConcurrent ==
    /\ RegInit({})
    /\ PolInit({p \in RetryPolicies :
                  /\ p.count \in 1 .. MaxCount /\ p.sleep = 0
                  /\ p.limit_time = Inf /\ ~p.event /\ ~p.invert /\ ~p.silent
                  /\ p.etype = {"ValueError"} /\ p.emsg = NoMsg})
    /\ CtorInit({NoGiven}) /\ CodecInit({NoCodec})
    /\ ConcInit(1 .. MaxInvokers)
    /\ StackInit({NoStack})
ConcNext ==
    \/ \E t \in 1 .. MaxInvokers : ConcInvoke(t)
    \/ \E t \in 1 .. MaxInvokers : ConcRaises(t)
    \/ \E t \in 1 .. MaxInvokers : ConcCheck(t)
SpecConcurrent == InitConcurrent /\ [][ConcNext]_vars

\* TryExcept(K, ...) on top of Retry(K', count=k), both freshly made, around
\* a plain function or a coroutine function
InitStack ==
    /\ RegInit({}) /\ PolInit({NoPolicy}) /\ CtorInit({NoGiven})
    /\ CodecInit({NoCodec}) /\ ConcInit({})
    /\ StackInit(
          {[NoStack EXCEPT !.inner = i, !.outer = o, !.unit = u] :
             i \in {p \in RetryPolicies :
                      /\ p.count \in 1 .. MaxCount /\ p.sleep = 0
                      /\ p.limit_time = Inf /\ ~p.event /\ ~p.invert
                      /\ p.emsg = NoMsg},
             o \in {p \in TryExceptPolicies :
                      /\ ~p.invert /\ p.emsg = NoMsg
                      /\ p.ecallback = "none" /\ ~p.eexit},
             u \in Units})
StackNext ==
    \/ StackWrapInner
    \/ StackWrapOuter
    \/ StackInvoke
    \/ StackReturns("result")
    \/ \E b \in Raisable : StackRaises(b)
    \/ StackCheck
    \/ StackHandle
SpecStack == InitStack /\ [][StackNext]_vars

\* ------------------------------------------------------------------------
\* Registry claims
\* ------------------------------------------------------------------------
\* the names some thread has built a type for and is about to store
Storing == {thr[t].ename : t \in {u \in threads : thr[u].pc = "store"}}

\* C3 -- Idempotent creation: after any sequence of lookups, any two requests
\* for the same name were handed the identical object, and type() has been
\* called at most once per name (every object ever allocated is the one
\* registered, or about to be registered, under its name).
IdempotentCreation ==
    /\ \A p, q \in held : p[1] = q[1] => p[2] = q[2]
    /\ nextId - 1 = Cardinality(DOMAIN history \cup Storing)

\* a created name was requested again and served from the registry
IdempotentCreationWitness ==
    /\ \E p \in held : p[1] = NameXError /\ p[2].id > 0
    /\ \E t \in threads : thr[t].pc = "fetch" /\ thr[t].ename = NameXError

\* C4 -- Registry thread-safety: under every interleaving, every object a
\* thread was handed for a name is the object the registry stores under
\* that name, and all threads were handed the same object.
RegistryThreadSafe ==
    /\ \A p \in held : p[1] \in DOMAIN history => history[p[1]] = p[2]
    /\ \A p, q \in held : p[1] = q[1] => p[2].id = q[2].id

\* ------------------------------------------------------------------------
\* Policy claims
\* ------------------------------------------------------------------------
\* the policy object was applied to the invoked unit of work and to no other
SoleUnit == wrapped = {cur}

\* every invocation of the unit of work so far raised an exception that the
\* policy's filter, substring and invert flag select
AlwaysFails ==
    \A i \in 1 .. Len(calls) :
        calls[i].type = "raise" /\ Matches(policy, calls[i].exc)

\* a Retry policy with an attempt bound, no time budget and no event
BoundedOnly ==
    /\ policy.cls = "Retry"
    /\ policy.count # Unbounded
    /\ policy.limit_time = Inf
    /\ ~policy.event

\* C1 -- Retry bound respected: a Retry policy with count = k > 0, no time
\* budget and no event, around a unit of work that raises a matching
\* exception on every call, never invokes it more than k times, and the
\* invocation ends after exactly k calls by raising the exception of the
\* k-th call.
RetryBoundRespected ==
    (BoundedOnly /\ SoleUnit /\ pc # "idle" /\ AlwaysFails) =>
        /\ Len(calls) <= policy.count
        /\ pc = "done" =>
              /\ Len(calls) = policy.count
              /\ outcome = Raised(calls[policy.count].exc)

RetryBoundWitness ==
    /\ BoundedOnly /\ SoleUnit /\ AlwaysFails
    /\ policy.count = MaxCount
    /\ pc = "done"
    /\ Len(calls) = MaxCount
    /\ outcome.type = "raise"

\* the match rule of guarded execution in the words of the design: the kind
\* is in the filter and the substring is unset or occurs in str(e)
InFilter(p, e) == \E k \in p.etype : k \in Ancestors(e.kind)
SubstringOk(p, e) == p.emsg = NoMsg \/ Contains(p.emsg, e.msg)

\* the disposition of a match runs to its end: no exit is requested and the
\* callback, if any, returns
DispositionCompletes(p) == ~p.eexit /\ p.ecallback # "raises"

\* C2 -- Guarded-execution match rule, invert = false: when the unit of work
\* returns, its result is returned unchanged; when it raises e, the
\* exception is suppressed and disposed if and only if e's kind is in the
\* filter and (emsg is unset or occurs in str(e)), and the fallback value is
\* what a completed disposition returns; in every other case e is raised
\* again unchanged and nothing is logged or called.
GuardedMatchRule ==
    (policy.cls = "TryExcept" /\ ~policy.invert /\ SoleUnit /\ pc = "done") =>
        LET c == calls[1] IN
        IF c.type = "return" THEN outcome = Returned(c.value) /\ log = <<>>
        ELSE LET e     == c.exc
                 match == InFilter(policy, e) /\ SubstringOk(policy, e)
             IN /\ match <=> outcome # Raised(e)
                /\ ~match => log = <<>>
                /\ outcome = Returned(policy.ereturn) => match
                /\ (match /\ DispositionCompletes(policy)) =>
                       outcome = Returned(policy.ereturn)

\* an exception of a subclass of the filter's kind, carrying the substring,
\* was suppressed
GuardedMatchWitness ==
    /\ policy.cls = "TryExcept" /\ ~policy.invert /\ SoleUnit /\ pc = "done"
    /\ policy.emsg # NoMsg
    /\ policy.etype = {"LookupError"}
    /\ calls[1].type = "raise"
    /\ calls[1].exc.kind = "IndexError"
    /\ outcome = Returned(policy.ereturn)

\* C5 -- Cancellation respected: once the event is set after a failed
\* attempt, no further attempt starts, wherever the loop is (in its stop
\* check or in its delay), and a stop check that sees the event set raises
\* the last exception.
CancellationRespected ==
    [][/\ (pc = "top" /\ pc' = "call" /\ count >= 1) =>
              ~(policy.event /\ eventSet)
       /\ (pc = "check" /\ pc' # "check" /\ policy.event /\ eventSet) =>
              (pc' = "done" /\ outcome' = Raised(LastExc))]_vars

\* end - before + sleep, as the stop check of the loop reads it
Projected == end - before + sleepv

\* C6 -- Time budget respected: with a time budget T, a further attempt
\* starts only if elapsed time plus the pending delay was below T at the
\* stop check, and a stop check that finds it at or above T ends the
\* invocation by raising the last exception.
TimeBudgetRespected ==
    [][/\ (pc = "top" /\ pc' = "call" /\ count >= 1 /\ policy.limit_time # Inf)
              => Projected < policy.limit_time
       /\ (pc = "check" /\ pc' # "check" /\ policy.limit_time # Inf
              /\ Projected >= policy.limit_time)
              => (pc' = "done" /\ outcome' = Raised(LastExc))]_vars

\* the budget alone stopped a loop that had retried at least once
TimeBudgetWitness ==
    /\ policy.cls = "Retry" /\ pc = "done" /\ Len(calls) >= 2
    /\ policy.limit_time # Inf
    /\ Projected >= policy.limit_time
    /\ ~CountReached(policy) /\ ~Cancelled(policy)
    /\ outcome = Raised(LastExc)

\* C7 -- Unbounded retry: with count = 0, no time budget and no event,
\* whatever silent and sleep are, a unit of work that always raises a
\* matching exception is invoked again and again and no exception reaches
\* the caller.
UnboundedRetryNeverRaises ==
    (/\ policy.cls = "Retry" /\ policy.count = Unbounded
     /\ policy.limit_time = Inf /\ ~policy.event
     /\ SoleUnit /\ AlwaysFails) =>
        /\ pc # "done"
        /\ outcome = NoOutcome

\* C8 -- Non-blocking delay for asynchronous work: while a Retry loop that
\* runs a coroutine function waits between attempts, another task of the
\* event loop can take a step; the blocking sleep belongs to the synchronous
\* loop only.
CooperativeAsyncDelay ==
    /\ (pc = "sleep" /\ conv = "acore" /\ others < MaxOtherSteps) =>
           ENABLED OtherTaskStep
    /\ (pc = "sleep" /\ conv = "core") => DelayKind(conv) = "blocking"

\* C9 -- Calling convention fixed per wrap: every wrapped unit is invoked
\* with the convention detected for it when it was wrapped, whatever else
\* the same policy object was applied to before or after.
ConventionFixedPerWrap == pc # "idle" => conv = Detect(cur)

\* an exception the inverted filter selects: an Exception outside the filter
\* whose message passes the substring test
OtherKind(p, e) ==
    /\ "Exception" \in Ancestors(e.kind)
    /\ ~InFilter(p, e)
    /\ SubstringOk(p, e)

\* the invocations that raised an exception the inverted filter selects
OtherKindCalls ==
    {i \in 1 .. Len(calls) :
        calls[i].type = "raise" /\ OtherKind(policy, calls[i].exc)}

\* C10 -- Invert semantics: with invert = true, an exception whose kind is in
\* the filter is raised again unmodified with no disposition; an exception
\* of another kind (an Exception passing the substring test) is disposed:
\* TryExcept returns the fallback, TryContext leaves the block normally
\* (when the disposition completes), and Retry counts it as a failed attempt
\* and gives up only when a stop condition holds.
InvertSemantics ==
    (policy.invert /\ calls # <<>> /\ calls[Len(calls)].type = "raise") =>
        LET e == LastExc IN
        /\ InFilter(policy, e) =>
              /\ pc = "done"
              /\ outcome = Raised(e)
              /\ ~(\E i \in 1 .. Len(log) : log[i] \in {"log", "callback", "exit"})
        /\ policy.cls = "Retry" =>
              /\ count = Cardinality(OtherKindCalls)
              /\ Len(log) <= count
              /\ (OtherKind(policy, e) /\ pc = "done" /\ outcome = Raised(e))
                    => StopCondition(policy)
        /\ (policy.cls = "TryExcept" /\ OtherKind(policy, e)) =>
              /\ outcome # Raised(e)
              /\ log = DispositionLog(policy)
              /\ DispositionCompletes(policy) => outcome = Returned(policy.ereturn)
        /\ (policy.cls = "TryContext" /\ OtherKind(policy, e)) =>
              /\ outcome # Raised(e)
              /\ log = DispositionLog(policy)
              /\ DispositionCompletes(policy) => outcome = Swallowed

\* an inverted Retry retried an exception outside its filter and then let an
\* exception of the filter's kind through
InvertWitness ==
    /\ policy.cls = "Retry" /\ policy.invert /\ policy.etype = {"LookupError"}
    /\ Len(calls) = 2 /\ count = 1
    /\ calls[1].type = "raise" /\ calls[1].exc.kind = "ValueError"
    /\ calls[2].type = "raise" /\ calls[2].exc.kind = "IndexError"
    /\ outcome = Raised(calls[2].exc)

\* ------------------------------------------------------------------------
\* Disposition claims
\* ------------------------------------------------------------------------
\* the first invocation of the unit of work (or the guarded block) raised
FirstRaised == calls # <<>> /\ calls[1].type = "raise"

\* the exception is one the policy selects, in the words of the design: with
\* invert unset its kind is in the filter, with invert set it is an Exception
\* outside the filter; the substring test applies either way
Selected(p, e) ==
    IF p.invert THEN OtherKind(p, e)
    ELSE InFilter(p, e) /\ SubstringOk(p, e)

\* C11 -- Non-matching passthrough: for TryExcept, Retry and TryContext with
\* invert = false, an exception whose kind is outside the filter, or whose
\* message lacks the configured substring, propagates from the very first
\* attempt: the unit of work was invoked exactly once, the logger was never
\* called and the callback was never called.
NonMatchingPassthrough ==
    (~policy.invert /\ FirstRaised /\ ~Selected(policy, calls[1].exc)) =>
        /\ pc = "done"
        /\ Len(calls) = 1
        /\ outcome = Raised(calls[1].exc)
        /\ log = <<>>
        /\ cbargs = <<>>

\* a Retry policy let through, on the first attempt, an exception of the
\* filter's kind whose message lacks the substring
NonMatchingPassthroughWitness ==
    /\ policy.cls = "Retry" /\ ~policy.invert /\ ~policy.silent
    /\ policy.etype = {"ValueError"} /\ policy.emsg = <<"a">>
    /\ policy.count = MaxCount
    /\ FirstRaised
    /\ calls[1].exc.kind = "ValueError" /\ calls[1].exc.msg = <<"b">>
    /\ pc = "done" /\ outcome = Raised(calls[1].exc)

\* C12 -- Default handling of a match: with silent = false, no callback and
\* eexit = false, a TryExcept-wrapped call whose unit of work raises a
\* matching exception emits exactly one diagnostic message, returns the
\* configured fallback value (None by default) and lets no exception escape.
DefaultHandlingOfMatch ==
    (/\ policy.cls = "TryExcept"
     /\ ~policy.silent /\ policy.ecallback = "none" /\ ~policy.eexit
     /\ FirstRaised /\ Selected(policy, calls[1].exc)) =>
        /\ pc = "done"
        /\ log = <<"log">>
        /\ outcome = Returned(policy.ereturn)
        /\ outcome.type # "raise"

\* the default fallback value was returned for a ValueError
DefaultHandlingWitness ==
    /\ policy.cls = "TryExcept"
    /\ ~policy.silent /\ policy.ecallback = "none" /\ ~policy.eexit
    /\ ~policy.invert /\ policy.emsg = NoMsg /\ policy.etype = {"ValueError"}
    /\ policy.ereturn = "None"
    /\ FirstRaised /\ calls[1].exc.kind = "ValueError"
    /\ outcome = Returned("None")

\* the place of a step in the disposition sequence
StepRank(s) == CASE s = "log" -> 1 [] s = "callback" -> 2 [] s = "exit" -> 3

\* the steps recorded so far, as a set
StepsTaken == {log[i] : i \in 1 .. Len(log)}

\* C13 -- Disposition order: for every matched exception in TryExcept and
\* TryContext the steps happen strictly in the order log (if not silent),
\* callback (if configured), exit (if eexit): each step happens at most
\* once, no exit precedes the callback, no log follows the callback, and a
\* step happens exactly when its flag asks for it (the exit only after the
\* callback has returned).
DispositionOrder ==
    (policy.cls \in {"TryExcept", "TryContext"}) =>
        /\ \A i, j \in 1 .. Len(log) :
               i < j => StepRank(log[i]) < StepRank(log[j])
        /\ (FirstRaised /\ Selected(policy, calls[1].exc)) =>
               /\ "log" \in StepsTaken <=> ~policy.silent
               /\ "callback" \in StepsTaken <=> policy.ecallback # "none"
               /\ "exit" \in StepsTaken <=>
                      (policy.eexit /\ policy.ecallback # "raises")
               /\ "exit" \in StepsTaken => outcome = Raised(LibExc("SystemExit"))

\* all three steps were taken by a scoped guarded block
DispositionOrderWitness ==
    /\ policy.cls = "TryContext"
    /\ log = <<"log", "callback", "exit">>
    /\ outcome = Raised(LibExc("SystemExit"))

\* C14 -- Callback failure propagates: when the callback raises while a
\* matched exception is disposed, in TryExcept and TryContext alike, the
\* callback's exception reaches the caller: the fallback value is not
\* returned, the block does not exit normally and no exit is requested.
CallbackFailurePropagates ==
    (/\ policy.cls \in {"TryExcept", "TryContext"}
     /\ policy.ecallback = "raises"
     /\ FirstRaised /\ Selected(policy, calls[1].exc)) =>
        /\ pc = "done"
        /\ outcome = Raised(LibExc("CallbackError"))
        /\ outcome # Returned(policy.ereturn)
        /\ outcome # Swallowed
        /\ "exit" \notin StepsTaken
        /\ Len(cbargs) = 1

\* a TryExcept policy with eexit set and a failing callback
CallbackFailureWitness ==
    /\ policy.cls = "TryExcept" /\ policy.ecallback = "raises" /\ policy.eexit
    /\ FirstRaised /\ Selected(policy, calls[1].exc)
    /\ outcome = Raised(LibExc("CallbackError"))

\* a matched exception was disposed by a policy with a callback
CallbackDue ==
    /\ policy.cls \in {"TryExcept", "TryContext"}
    /\ policy.ecallback # "none"
    /\ FirstRaised /\ Selected(policy, calls[1].exc)

StdNames == DOMAIN StdBuiltins

\* C16 -- Standard-kind passthrough: a request for the name of a built-in
\* kind is handed that kind itself; no step of such a request changes the
\* registry; and after any sequence of requests, from one thread or two, the
\* registry holds no name of a built-in kind.
StandardKindPassthrough ==
    /\ [](/\ DOMAIN history \cap StdNames = {}
          /\ \A p \in held : p[1] \in StdNames => p[2] = StdBuiltins[p[1]])
    /\ [][\A t \in threads :
             (thr[t].ename \in StdNames /\ thr'[t] # thr[t])
                 => history' = history]_vars

\* a built-in kind was handed out while the registry held a created kind
StandardKindWitness ==
    /\ <<NameValueErr, StdBuiltins[NameValueErr]>> \in held
    /\ NameXError \in DOMAIN history
    /\ \A t \in threads : thr[t].pc = "idle"

\* C17 -- Registry is read-only to callers: every mutation attempted through
\* the view (item assignment, item deletion, setdefault, update, pop,
\* popitem, clear or any other mutating path) failed with ReadOnlyError.
RegistryReadOnly ==
    \A w \in writes :
        w.op \in GuardedOps \cup OpenOps => w.raised = NameReadOnly

\* C18 -- Registry grows monotonically: no step removes a name from the
\* registry or binds a registered name to a different kind object.
RegistryMonotone ==
    [][\A n \in DOMAIN history :
          n \in DOMAIN history' /\ history'[n] = history[n]]_vars

\* C19 -- Registry well-formedness: in every reachable state every entry
\* name -> T of the registry has T a subtype of the root kind Error and T's
\* own name equal to its key; a registered name that does not end in
\* "Error" was warned about and is registered all the same.
RegistryWellFormed ==
    /\ \A n \in DOMAIN history :
           history[n].base = "Error" /\ history[n].name = n
    /\ \A n \in DOMAIN history : Tail_(n, 5) # ErrorSuffix => n \in warned

ValidConfig(g) ==
    /\ NewEtype(g.etype).t # "raise"
    /\ g.emsg = PyNone \/ g.emsg.t = "str"
    /\ g.logger = PyNone \/ g.logger.t = "Logger"
    /\ g.cls = "Retry" => RetryInit(g).type # "raise"

\* C21 -- Configuration errors are never deferred: whenever a construction,
\* or the entry of a scoped block, fails, it fails with ParameterError, and
\* no exception of the guarded work is ever matched under an invalid
\* configuration: the failure comes at construction or enter time, before
\* the guarded work runs.
ConfigErrorsNotDeferred ==
    /\ built.type = "raise" =>
           built.kind = "ParameterError" /\ built.when \in {"construct", "enter"}
    /\ built.when = "match" => ValidConfig(given)
    /\ (built.type \in {"policy", "entered"} /\ given.cls # "TryContext")
           => ValidConfig(given)

\* ------------------------------------------------------------------------
\* Retry and TryContext claims
\* ------------------------------------------------------------------------
\* C22 -- Diagnostic failures never surface: the step that decides on and
\* formats the progress line of a failed attempt always hands over to the
\* stop-condition check; it never ends the invocation and never gives the
\* caller an exception of its own.
DiagnosticFailuresContained ==
    [][(pc = "einfo" /\ pc' # "einfo") =>
           (pc' = "measure" /\ outcome' = outcome)]_vars

\* ------------------------------------------------------------------------
\* Duration codec claims
\* ------------------------------------------------------------------------
\* the digits in front of the unit letter c, <<>> when text has no c
Field(text, c) ==
    IF \A i \in 1 .. Len(text) : text[i] # c THEN <<>>
    ELSE LET j == CHOOSE i \in 1 .. Len(text) : text[i] = c
             before_ == {0} \cup {i \in 1 .. j - 1 : text[i] \notin Digits}
             p == CHOOSE i \in before_ : \A k \in before_ : k <= i
         IN SubSeq(text, p + 1, j - 1)

\* days, hours, minutes and seconds in this order, each at most once and
\* never zero, hours below 24, minutes and seconds below 60, no leading
\* zeros; zero seconds are "0s"
Canonical(text) ==
    \/ text = <<"0", "s">>
    \/ /\ text # <<>>
       /\ \A i \in 1 .. Len(text) : text[i] \in Digits \cup {"d", "h", "m", "s"}
       /\ text[Len(text)] \notin Digits
       /\ GroupsFrom(text, 1, AnyUnit) # NoMatch
       /\ \A c \in {"d", "h", "m", "s"} :
              Field(text, c) # <<>> => Field(text, c)[1] # "0"
       /\ IntOf(Field(text, "h")) < 24
       /\ IntOf(Field(text, "m")) < 60
       /\ IntOf(Field(text, "s")) < 60

\* C23 -- Duration codec round trip: for every whole n in 0 .. MaxSecond,
\* second2time(n) is in canonical d/h/m/s form and time2second of it is n
\* again; "1h2m3s" parses to 3723 and formats back to "1h2m3s", "90s"
\* parses to 90 and formats to "1m30s", "45" parses to 45 and formats to
\* "45s".
DurationRoundTrip ==
    /\ (codec.from = "second" /\ codec.stage >= 1) => Canonical(codec.text)
    /\ (codec.from = "second" /\ codec.stage = 2) =>
           codec.again = PyInt(codec.second)
    /\ (codec.from = "text" /\ codec.stage = 2) => Canonical(codec.again.s)
    /\ (codec.from = "text" /\ codec.text = <<"1", "h", "2", "m", "3", "s">>
           /\ codec.stage = 2) =>
           /\ codec.second = 3723
           /\ codec.again.s = <<"1", "h", "2", "m", "3", "s">>
    /\ (codec.from = "text" /\ codec.text = <<"9", "0", "s">>
           /\ codec.stage = 2) =>
           /\ codec.second = 90
           /\ codec.again.s = <<"1", "m", "3", "0", "s">>
    /\ (codec.from = "text" /\ codec.text = <<"4", "5">> /\ codec.stage = 2) =>
           /\ codec.second = 45
           /\ codec.again.s = <<"4", "5", "s">>

\* a duration with days, hours, minutes and seconds went through both
\* functions
DurationRoundTripWitness ==
    /\ codec.from = "second" /\ codec.stage = 2
    /\ codec.second = 90061
    /\ codec.text = <<"1", "d", "1", "h", "1", "m", "1", "s">>
    /\ codec.again = PyInt(90061)

\* C24 -- Retry propagates the most recent exception: whenever an
\* invocation through Retry ends with an exception, whatever ended the loop,
\* the caller gets the very exception the last invocation of the unit of
\* work raised.
RetryPropagatesLast ==
    (policy.cls = "Retry" /\ pc = "done" /\ outcome.type = "raise") =>
        /\ calls # <<>>
        /\ calls[Len(calls)].type = "raise"
        /\ outcome.exc = LastExc

\* the attempts that produced a progress message
Logged == {tries[i] : i \in 1 .. Len(tries)}
\* the failed attempts output_einfo has been through
Reported == 1 .. (IF pc = "einfo" THEN count - 1 ELSE count)
\* the loop was ended by a stop condition: the exception of the last
\* attempt, which matched, went to the caller
StoppedByCondition ==
    /\ pc = "done" /\ outcome.type = "raise"
    /\ outcome.exc = LastExc /\ Matches(policy, LastExc)

\* C25 -- Retry progress logging: when not silenced, the first failed
\* attempt produces a progress message, and so does the final one, whose
\* exception is propagated, whichever stop condition ends the loop; with an
\* attempt bound below 30 every failed attempt produces one.
RetryProgressLogged ==
    (policy.cls = "Retry" /\ ~policy.silent) =>
        /\ 1 \in Reported => 1 \in Logged
        /\ StoppedByCondition => count \in Logged
        /\ (policy.count # Unbounded /\ policy.count < ManyAttempts) =>
               Reported \subseteq Logged

\* C26 -- Concurrent invocations are independent: when several threads
\* invoke the same function wrapped by Retry(count=k) and every attempt
\* fails, no invocation makes more than k attempts and each one ends after
\* exactly k.
ConcurrentInvocationsIndependent ==
    \A t \in DOMAIN frames :
        /\ frames[t].attempts <= policy.count
        /\ frames[t].pc = "done" => frames[t].attempts = policy.count
        /\ frames[t].pc = "call" => frames[t].attempts < policy.count

\* every thread has ended, while the others were at work
ConcurrentInvocationsWitness ==
    /\ policy.count = MaxCount
    /\ \A t \in DOMAIN frames : frames[t].pc = "done"
    /\ Cardinality(DOMAIN counters) = MaxInvokers

\* C27 -- Delay is a floor on attempt spacing: the wait after a failed
\* attempt is max(0, delay - time spent since the attempt started), never
\* negative, and the next attempt starts no earlier than the configured
\* delay after the start of the failed one, and not before the wait is over.
DelayIsFloor ==
    /\ [](pc \in {"check", "sleep"} =>
             /\ sleepv >= 0
             /\ sleepv >= policy.sleep - (end - start)
             /\ sleepv > 0 => sleepv = policy.sleep - (end - start))
    /\ [][(pc = "sleep" /\ pc' = "top") => now >= end + sleepv]_vars
    /\ [][(pc = "top" /\ pc' = "call" /\ count >= 1) =>
              start' >= start + policy.sleep]_vars

\* the failed attempt took one tick of a delay of two: the wait was one
\* tick and the second attempt started two ticks after the first
DelayIsFloorWitness ==
    /\ policy.cls = "Retry" /\ policy.sleep = 2
    /\ pc = "call" /\ Len(calls) = 1 /\ count = 1
    /\ end = 1 /\ sleepv = 1 /\ start = 2

\* C28 -- Scoped guarded block: TryContext does nothing when the block
\* completes; an exception that escapes the block is selected by the rule
\* of guarded execution (filter, substring, invert); a selected exception
\* is logged unless silent, handed to the callback if there is one, and
\* swallowed when the disposition completes; any other exception is raised
\* again unchanged with no log and no callback.
ScopedBlockRule ==
    (policy.cls = "TryContext" /\ pc = "done") =>
        LET c == calls[1] IN
        IF c.type = "return"
        THEN outcome = Returned("None") /\ log = <<>> /\ cbargs = <<>>
        ELSE LET e == c.exc IN
             /\ Selected(policy, e) <=> Handles(policy, e)
             /\ Selected(policy, e) =>
                    /\ "log" \in StepsTaken <=> ~policy.silent
                    /\ Len(cbargs) = (IF policy.ecallback = "none" THEN 0 ELSE 1)
                    /\ outcome # Raised(e)
                    /\ DispositionCompletes(policy) => outcome = Swallowed
                    /\ outcome = Swallowed => DispositionCompletes(policy)
             /\ ~Selected(policy, e) =>
                    outcome = Raised(e) /\ log = <<>> /\ cbargs = <<>>

\* with invert, an IndexError outside the filter was logged, handed to the
\* callback and swallowed
ScopedBlockWitness ==
    /\ policy.cls = "TryContext" /\ pc = "done"
    /\ policy.invert /\ policy.etype = {"ValueError"} /\ policy.emsg = <<"a">>
    /\ calls[1].type = "raise" /\ calls[1].exc.kind = "IndexError"
    /\ log = <<"log", "callback">> /\ Len(cbargs) = 1
    /\ outcome = Swallowed

\* every invocation of the unit of work under the stack raised an exception
\* of a kind both filters hold
StackAlwaysFails ==
    \A i \in 1 .. Len(stack.calls) :
        /\ stack.calls[i].type = "raise"
        /\ InFilter(stack.inner, stack.calls[i].exc)
        /\ InFilter(stack.outer, stack.calls[i].exc)

\* C29 -- Stacked policies compose: with TryExcept(K) on top of
\* Retry(count = k) around a unit of work that always raises kind K, the
\* unit is invoked exactly k times, the exception the loop propagates is
\* disposed once by the outer TryExcept and the call returns the outer
\* fallback value; both policies use the calling convention of the
\* innermost unit of work, the asynchronous one for a coroutine function.
StackedPoliciesCompose ==
    /\ (stack.pc = "done" /\ StackAlwaysFails) =>
           /\ Len(stack.calls) = stack.inner.count
           /\ stack.outcome = Returned(stack.outer.ereturn)
           /\ Cardinality({i \in 1 .. Len(stack.log) : stack.log[i] = "log"})
                  = (IF stack.outer.silent THEN 0 ELSE 1)
           /\ stack.log # <<>> => stack.log[Len(stack.log)] # "progress"
                                     \/ stack.outer.silent
    /\ stack.pc \notin {"new", "inner"} =>
           /\ stack.inner.core = Detect(stack.unit)
           /\ stack.outer.core = Detect(stack.unit)

\* a coroutine function under both policies was awaited MaxCount times and
\* the outer fallback value came back
StackedPoliciesWitness ==
    /\ stack.pc = "done" /\ StackAlwaysFails
    /\ stack.unit = "af" /\ stack.outer.core = "acore"
    /\ stack.inner.count = MaxCount /\ Len(stack.calls) = MaxCount
    /\ ~stack.outer.silent /\ ~stack.inner.silent
    /\ stack.outer.ereturn = "fallback"
    /\ stack.outcome = Returned("fallback")

\* C30 -- Bounded retry terminates: for every k >= 1 and every delay, time
\* budget, event, silent and invert, an invocation through Retry(count=k)
\* comes to an end, and the unit of work is invoked at most k times.
BoundedRetryTerminates ==
    /\ [](policy.cls = "Retry" /\ policy.count # Unbounded
             => Len(calls) <= policy.count)
    /\ (pc = "top" /\ policy.count # Unbounded) ~> (pc = "done")

\* the loop ran to its bound, waiting between the attempts, and ended
BoundedRetryWitness ==
    /\ policy.cls = "Retry" /\ policy.count = MaxCount /\ policy.sleep = 2
    /\ policy.limit_time = Inf
    /\ pc = "done" /\ Len(calls) = MaxCount /\ AlwaysFails
    /\ outcome = Raised(LastExc)

\* ------------------------------------------------------------------------
\* Frame and escalation claims
\* ------------------------------------------------------------------------
\* C31 -- Only caller lookups add names: the registry's set of names changes
\* only in the step that stores the kind created for a name a caller
\* requested through attribute lookup; a write rejected with ReadOnlyError
\* and a construction rejected with ParameterError leave the set of names
\* as it was.
OnlyCallerLookupsAddNames ==
    [][DOMAIN history' # DOMAIN history =>
          \E t \in threads :
              /\ thr[t].op = "lookup" /\ thr[t].pc = "store"
              /\ thr[t].ename \notin StdNames
              /\ DOMAIN history' = DOMAIN history \cup {thr[t].ename}]_vars

\* the unit of work, an inner policy whose disposition requests the exit,
\* raises SystemExit in this step
ExitRequested ==
    /\ Len(calls') = Len(calls) + 1
    /\ calls'[Len(calls')].type = "raise"
    /\ calls'[Len(calls')].exc.kind = "SystemExit"

\* C32 -- Exit escalation cannot be intercepted: a SystemExit raised under
\* a TryExcept, Retry or TryContext policy, whatever its filter, substring
\* and invert flag, ends the invocation and reaches the caller as it is:
\* it is not suppressed, not counted as a failed attempt, not logged and
\* not handed to a callback.
ExitPassesThrough ==
    [][ExitRequested =>
          /\ pc' = "done"
          /\ outcome' = Raised(calls'[Len(calls')].exc)
          /\ count' = count
          /\ log' = log /\ tries' = tries /\ cbargs' = cbargs]_vars

\* a Retry policy with invert set had counted and reported one failed
\* attempt when the second raised SystemExit, which went to the caller
ExitPassesThroughWitness ==
    /\ policy.cls = "Retry" /\ policy.invert /\ ~policy.silent
    /\ policy.emsg = NoMsg /\ policy.count = MaxCount
    /\ pc = "done" /\ Len(calls) = 2 /\ count = 1 /\ tries = <<1>>
    /\ calls[2].type = "raise" /\ calls[2].exc.kind = "SystemExit"
    /\ outcome = Raised(calls[2].exc)

====
